---- MODULE Spec2Model ----
(***************************************************************************)
(* Session client of the Superset MCP server (src/src/utils/http-client.ts)*)
(* as a state machine.  One SupersetHttpClient object is shared by a fixed  *)
(* number of asynchronous tasks.  A task is one top-level call of the       *)
(* client's public API; it owns a stack of suspended async functions.  A    *)
(* step of a task is the code that runs between two awaits: JavaScript runs *)
(* it without interleaving, calls into async functions run synchronously up *)
(* to their first await, and every await (also of an already settled        *)
(* promise) gives other tasks the chance to run.                            *)
(***************************************************************************)
EXTENDS Integers, Sequences, FiniteSets, TLC

\* ---------------------------------------------------------------- bounds
NumTasks == 1          \* top-level calls that may be in flight together
NumCallers == 2        \* callers of the client whose calls overlap
MaxLogouts == 1        \* logout() calls in one behaviour
Tasks == 1..NumTasks

\* ------------------------------------------------------- values and paths
\* null, undefined and "" alike: every credential test of the code is a
\* truthiness test (!!this.token, !this.refresh, if (this.csrf)).
Null == "null"
Truthy(v) == v # Null

AccessTokens == {"A1", "A2"}
RefreshTokens == {"R1"}
CsrfTokens == {"X1"}
Expired == "Token has expired"

\* Endpoint paths, character by character, so that the substring tests of
\* request() are computed and not assumed.
BaseUrl == <<"h", "t", "t", "p", ":", "/", "/", "h">>
LoginPath == <<"/", "a", "p", "i", "/", "v", "1", "/", "s", "e", "c", "u", "r", "i", "t", "y", "/", "l", "o", "g", "i", "n">>
RefreshPath == <<"/", "a", "p", "i", "/", "v", "1", "/", "s", "e", "c", "u", "r", "i", "t", "y", "/", "r", "e", "f", "r", "e", "s", "h">>
CsrfPath == <<"/", "a", "p", "i", "/", "v", "1", "/", "s", "e", "c", "u", "r", "i", "t", "y", "/", "c", "s", "r", "f", "_", "t", "o", "k", "e", "n", "/">>
\* getDatabases(): /api/v1/database/
DatabasesPath == <<"/", "a", "p", "i", "/", "v", "1", "/", "d", "a", "t", "a", "b", "a", "s", "e", "/">>
\* getTableMetadata(1, "public", "login_log"): /api/v1/database/1/table/login_log/public/
TableMetaPath == <<"/", "a", "p", "i", "/", "v", "1", "/", "d", "a", "t", "a", "b", "a", "s", "e", "/", "1", "/", "t", "a", "b", "l", "e", "/", "l", "o", "g", "i", "n", "_", "l", "o", "g", "/", "p", "u", "b", "l", "i", "c", "/">>
\* getDatabase(1): /api/v1/database/1
DatabasePath == <<"/", "a", "p", "i", "/", "v", "1", "/", "d", "a", "t", "a", "b", "a", "s", "e", "/", "1">>
\* getSchemas(1): /api/v1/database/1/schemas/?q=(force:!t)
SchemasPath == <<"/", "a", "p", "i", "/", "v", "1", "/", "d", "a", "t", "a", "b", "a", "s", "e", "/", "1", "/", "s", "c", "h", "e", "m", "a", "s", "/", "?", "q", "=", "(", "f", "o", "r", "c", "e", ":", "!", "t", ")">>
\* getTables(1, "public"): /api/v1/database/1/tables/?q=(force:!f,schema_name:public)
TablesPath == <<"/", "a", "p", "i", "/", "v", "1", "/", "d", "a", "t", "a", "b", "a", "s", "e", "/", "1", "/", "t", "a", "b", "l", "e", "s", "/", "?", "q", "=", "(", "f", "o", "r", "c", "e", ":", "!", "f", ",", "s", "c", "h", "e", "m", "a", "_", "n", "a", "m", "e", ":", "p", "u", "b", "l", "i", "c", ")">>
\* executeQuery(request): /api/v1/sqllab/execute/
ExecutePath == <<"/", "a", "p", "i", "/", "v", "1", "/", "s", "q", "l", "l", "a", "b", "/", "e", "x", "e", "c", "u", "t", "e", "/">>
\* getQueryResults(1): /api/v1/sqllab/results/1/
ResultsPath == <<"/", "a", "p", "i", "/", "v", "1", "/", "s", "q", "l", "l", "a", "b", "/", "r", "e", "s", "u", "l", "t", "s", "/", "1", "/">>
\* cancelQuery(1): /api/v1/sqllab/cancel_query/
CancelPath == <<"/", "a", "p", "i", "/", "v", "1", "/", "s", "q", "l", "l", "a", "b", "/", "c", "a", "n", "c", "e", "l", "_", "q", "u", "e", "r", "y", "/">>
\* getTableMetadata(1, "public", "csrf_token"): /api/v1/database/1/table/csrf_token/public/
TokenTablePath == <<"/", "a", "p", "i", "/", "v", "1", "/", "d", "a", "t", "a", "b", "a", "s", "e", "/", "1", "/", "t", "a", "b", "l", "e", "/", "c", "s", "r", "f", "_", "t", "o", "k", "e", "n", "/", "p", "u", "b", "l", "i", "c", "/">>
SlashLogin == <<"/", "l", "o", "g", "i", "n">>
CsrfWord == <<"c", "s", "r", "f", "_", "t", "o", "k", "e", "n">>

AuthEndpoints == {"login", "refresh", "csrf"}
DataEndpoints == {"databases", "tablemeta"}
\* the endpoints of the other operations of SupersetApiService
ServiceEndpoints == {"database", "schemas", "tables", "execute", "results", "cancel", "tokenmeta"}
Endpoints == AuthEndpoints \cup DataEndpoints \cup ServiceEndpoints

PathOf(ep) ==
  CASE ep = "login" -> LoginPath
    [] ep = "refresh" -> RefreshPath
    [] ep = "csrf" -> CsrfPath
    [] ep = "databases" -> DatabasesPath
    [] ep = "tablemeta" -> TableMetaPath
    [] ep = "database" -> DatabasePath
    [] ep = "schemas" -> SchemasPath
    [] ep = "tables" -> TablesPath
    [] ep = "execute" -> ExecutePath
    [] ep = "results" -> ResultsPath
    [] ep = "cancel" -> CancelPath
    [] ep = "tokenmeta" -> TokenTablePath

\* String.prototype.lastIndexOf: the 0-based start of the last occurrence, -1 if none.
LastIndexOf(s, sub) ==
  LET hits == {i \in 0..(Len(s) - Len(sub)) : SubSeq(s, i + 1, i + Len(sub)) = sub}
  IN IF hits = {} THEN -1 ELSE CHOOSE i \in hits : \A j \in hits : j <= i

\* const url = `${this.baseUrl}${endpoint...}` (every path here starts with '/')
Url(ep) == BaseUrl \o PathOf(ep)

\* Evaluated once per endpoint.
LoginIndex == [ep \in Endpoints |-> LastIndexOf(PathOf(ep), SlashLogin)]
CsrfIndex == [ep \in Endpoints |-> LastIndexOf(Url(ep), CsrfWord)]

\* ------------------------------------------------------------- responses
\* What fetch() settles with: a rejection, or a status line with headers.
\* A Set-Cookie header is kept as split(';') leaves it, each segment as
\* split('=') leaves it.
NoHeader == <<>>
CookieA == << <<"session", "abc">>, <<" Path", "/">>, <<" HttpOnly">> >>
SetCookies == {NoHeader, CookieA}
Statuses == {200, 401, 500}

ThrowHead == [kind |-> "throw", status |-> 0, setCookie |-> NoHeader]
NoHead == [kind |-> "none", status |-> 0, setCookie |-> NoHeader]
Heads == {ThrowHead} \cup
         {[kind |-> "resp", status |-> s, setCookie |-> c] : s \in Statuses, c \in SetCookies}

\* What reading the body settles with.  kind "json": an object (or a text
\* body, whose fields are all absent); "null": the JSON value null;
\* "throw": response.json() rejects.
MkBody(k, a, r, x, m) ==
  [kind |-> k, access_token |-> a, refresh_token |-> r, result |-> x, msg |-> m]
EmptyBody == MkBody("json", Null, Null, Null, Null)
NullBody == MkBody("null", Null, Null, Null, Null)
ThrowBody == MkBody("throw", Null, Null, Null, Null)
NoBody == MkBody("none", Null, Null, Null, Null)
Bodies ==
  {MkBody("json", a, r, Null, Null) : a \in AccessTokens, r \in RefreshTokens \cup {Null}}
  \cup {MkBody("json", Null, Null, x, Null) : x \in CsrfTokens}
  \cup {MkBody("json", Null, Null, Null, m) : m \in {Expired, "Unauthorized"}}
  \cup {EmptyBody, NullBody, ThrowBody}

\* ---------------------------------------------------- values of the tasks
\* What an async function settles with.  tag "resp": a SupersetResponse;
\* "bool": login / refreshAccessToken; "str": getCsrfToken; "throw": a
\* rejection.
MkRet(t, su, st, er, d, b, s) ==
  [tag |-> t, success |-> su, status |-> st, error |-> er, data |-> d, b |-> b, s |-> s]
NoRet == MkRet("none", FALSE, 0, "none", NoBody, FALSE, Null)
ThrowRet == MkRet("throw", FALSE, 0, "none", NoBody, FALSE, Null)
BoolRet(b) == MkRet("bool", FALSE, 0, "none", NoBody, b, Null)
StrRet(s) == MkRet("str", FALSE, 0, "none", NoBody, FALSE, s)
RespRet(su, st, er, d) == MkRet("resp", su, st, er, d, FALSE, Null)

\* A suspended async function.  pc names the await it is suspended at.
MkFrame(fn, pc, ep, allow, auth, status, data, sent, retry) ==
  [fn |-> fn, pc |-> pc, ep |-> ep, allow |-> allow, auth |-> auth,
   status |-> status, data |-> data, sent |-> sent, retry |-> retry]
PlainFrame(fn, pc) == MkFrame(fn, pc, "none", FALSE, Null, 0, NoBody, 0, FALSE)

Top(st) == st[Len(st)]
Pop(st) == SubSeq(st, 1, Len(st) - 1)
Push(st, f) == Append(st, f)

\* A transport call as it leaves the client.
MkFetch(ep, bearer, xcsrf, cookie, by) ==
  [ep |-> ep, bearer |-> bearer, xcsrf |-> xcsrf, cookie |-> cookie, by |-> by]
NoFetch == MkFetch("none", Null, Null, <<>>, "none")

VARIABLES
  token, refresh, csrf, cookies,   \* the session fields of SupersetHttpClient
  stack,                           \* per task: its suspended async functions, innermost last
  ret,                             \* per task: what the innermost finished call settled with
  op,                              \* per task: the top-level call it runs, with its endpoint
  topCalls,                        \* per task: transport calls to op's endpoint during the call
  lastAuth,                        \* history: the last of login/refresh success ("set") and logout ("cleared")
  ev,                              \* history: what the last step consumed, called, returned and sent
  pinned,                          \* the endpoints this remote answers identically every time
  pin,                             \* per pinned endpoint: the answer it has given
  phase, snap,                     \* the twice-in-sequence scenario: its position, and the outcome of the first call
  logouts,                         \* logout() calls so far
  inFlight,                        \* history, per task: how many of its suspended functions the last logout() found suspended
  databasesCache,                  \* the server's database list: let databasesCache: Database[] = []
  tablesCache,                     \* Map from database id to its table list
  fieldsCache,                     \* Map from `${databaseId}:${schema}:${tableName}` to a column list
  proc,                            \* per slot: the initializeCache run or tool handler in it, at its await
  started,                         \* getDatabases calls made so far, one by each initializeCache run
  toolCalls,                       \* tool calls made so far
  cev,                             \* history: what the last step of the server did
  heur,                            \* the matching heuristic applied to an input: input and result
  app                              \* an operation of the service applied to an input: input and result

sessVars == <<token, refresh, csrf, cookies, stack, ret, op, topCalls, lastAuth, ev,
              pinned, pin, phase, snap, logouts, inFlight>>
cacheVars == <<databasesCache, tablesCache, fieldsCache, proc, started, toolCalls, cev, heur, app>>
vars == <<token, refresh, csrf, cookies, stack, ret, op, topCalls, lastAuth, ev,
          pinned, pin, phase, snap, logouts, inFlight,
          databasesCache, tablesCache, fieldsCache, proc, started, toolCalls, cev, heur, app>>

Sess == [token |-> token, refresh |-> refresh, csrf |-> csrf, cookies |-> cookies]

\* ------------------------------------------------------ the code's tests
WithCredentials == TRUE       \* new SupersetApiService({..., withCredentials: true})
MaxRetries == 3               \* constructor default; stored, never read by request()

EmptyJar == <<>>                \* this.cookies = {}
\* The field initializers: token = null, refresh = null, csrf = null, cookies = {}
EmptySession == [token |-> Null, refresh |-> Null, csrf |-> Null, cookies |-> EmptyJar]

IsAuthenticated(tok) == Truthy(tok)

\* Variant: request() never logs in by itself.
NeedsLoginNever(ep, tok) == FALSE

\* endpoint.lastIndexOf("/login") == -1 && !this.isAuthenticated()
NeedsLogin(ep, tok) == LoginIndex[ep] = -1 /\ ~IsAuthenticated(tok)

\* Variant: the Authorization value of the options is sent, the held token is not.
BuildBearerFromOptions(tok, auth) == auth

\* headers = {..., ...options.headers}; if (this.token) headers['Authorization'] = ...
\* auth is the Authorization value of options.headers (Null: none given).
BuildBearer(tok, auth) == IF Truthy(tok) THEN tok ELSE auth

CookieHeader(jar) == IF WithCredentials /\ DOMAIN jar # {} THEN jar ELSE EmptyJar

\* String.prototype.trim on the names and values that occur
Trim(x) == CASE x = " Path" -> "Path" [] x = " HttpOnly" -> "HttpOnly" [] OTHER -> x

\* Variant: a cookie already in the jar gets the new value appended to the
\* old one ("old+new" stands for the longer string) instead of replaced.
RECURSIVE ParseSetCookieAppend(_, _)
ParseSetCookieAppend(jar, segs) ==
  IF segs = <<>> THEN jar
  ELSE LET seg == Head(segs)
           name == seg[1]
           value == IF Len(seg) >= 2 THEN seg[2] ELSE ""
           jar1 == IF name # "" /\ value # ""
                   THEN [n \in DOMAIN jar \cup {Trim(name)} |->
                           IF n = Trim(name)
                           THEN (IF n \in DOMAIN jar THEN "old+new" ELSE Trim(value))
                           ELSE jar[n]]
                   ELSE jar
       IN ParseSetCookieAppend(jar1, Tail(segs))

\* const [name, value] = cookie.split('='); if (name && value) this.cookies[...] = ...
RECURSIVE ParseSetCookie(_, _)
ParseSetCookie(jar, segs) ==
  IF segs = <<>> THEN jar
  ELSE LET seg == Head(segs)
           name == seg[1]
           value == IF Len(seg) >= 2 THEN seg[2] ELSE ""
           jar1 == IF name # "" /\ value # ""
                   THEN [n \in DOMAIN jar \cup {Trim(name)} |->
                           IF n = Trim(name) THEN Trim(value) ELSE jar[n]]
                   ELSE jar
       IN ParseSetCookie(jar1, Tail(segs))

\* if (url.lastIndexOf("csrf_token") != -1 && setCookieHeader) { ... }
StoreCookies(jar, ep, header) ==
  IF CsrfIndex[ep] # -1 /\ header # NoHeader THEN ParseSetCookie(jar, header) ELSE jar

ResponseOk(status) == status >= 200 /\ status <= 299

\* String(data.message || data.msg || '请求失败')
ErrorMessage(body) == IF Truthy(body.msg) THEN body.msg ELSE "request failed"

\* Variant: every 401 of a call with refresh allowed starts a refresh.
ShouldRefreshAnyUnauthorized(status, allow, body) == status = 401 /\ allow

\* response.status === 401 && refreshTokenIfNeeded && data.msg === 'Token has expired'
ShouldRefresh(status, allow, body) == status = 401 /\ allow /\ body.msg = Expired

\* response.success && response.data?.access_token
HasAccessToken(r) == r.tag = "resp" /\ r.success /\ Truthy(r.data.access_token)
\* Variants: the access_token test is left out.
LoginSucceededNoTokenTest(r) == r.tag = "resp" /\ r.success
RefreshSucceededNoTokenTest(r) == r.tag = "resp" /\ r.success
LoginSucceeded(r) == HasAccessToken(r)
RefreshSucceeded(r) == HasAccessToken(r)
\* response.success && response.data?.result
CsrfSucceeded(r) == r.tag = "resp" /\ r.success /\ Truthy(r.data.result)

FailureUnauthenticated == RespRet(FALSE, 401, "authenticated failed", NoBody)
FailureCaught == RespRet(FALSE, 0, "String(error)", NoBody)

\* ----------------------------------------- synchronous runs up to an await
\* The run of one step: the stack it leaves, the calls it entered, the
\* transport call it issued, and the function that returned in it (if any).
MkRun(st) == [st |-> st, calls |-> <<>>, issued |-> NoFetch, ret |-> NoRet, retFn |-> "none"]
Entered(k, fn, ep, s) ==
  [k EXCEPT !.calls = Append(@, [fn |-> fn, ep |-> ep, authed |-> IsAuthenticated(s.token),
                                 hasRefresh |-> Truthy(s.refresh)])]
Returned(k, fn, r) == [k EXCEPT !.st = Pop(@), !.ret = r, !.retFn = fn]

\* fetch(url, {method, headers, body, credentials}) and the await on it
IssueFetch(k, s, ep, allow, auth, sent, retry) ==
  LET by == IF k.st = <<>> THEN "top" ELSE Top(k.st).fn
      b == BuildBearer(s.token, auth)
  IN [k EXCEPT !.st = Push(@, MkFrame("request", "fetch", ep, allow, auth, 0, NoBody,
                                      sent + 1, retry)),
               !.issued = MkFetch(ep, b, s.csrf, CookieHeader(s.cookies), by)]

\* request() from its entry to its first await: the inline login, or the fetch.
\* login() from its entry to its first await: the fetch of its own request().
RECURSIVE CallRequest(_, _, _, _, _, _, _)
CallRequest(k, s, ep, allow, auth, sent, retry) ==
  LET k1 == Entered(k, "request", ep, s)
  IN IF NeedsLogin(ep, s.token)
     THEN LET k2 == [k1 EXCEPT !.st = Push(@, MkFrame("request", "awaitLogin", ep, allow, auth,
                                                      0, NoBody, sent, retry))]
              k3 == Entered(k2, "login", "none", s)
              k4 == [k3 EXCEPT !.st = Push(@, PlainFrame("login", "awaitResp"))]
          IN CallRequest(k4, s, "login", FALSE, Null, 0, FALSE)
     ELSE IssueFetch(k1, s, ep, allow, auth, sent, retry)

CallLogin(k, s) ==
  LET k1 == Entered(k, "login", "none", s)
      k2 == [k1 EXCEPT !.st = Push(@, PlainFrame("login", "awaitResp"))]
  IN CallRequest(k2, s, "login", FALSE, Null, 0, FALSE)

CallGetCsrfToken(k, s) ==
  LET k1 == Entered(k, "getCsrfToken", "none", s)
      k2 == [k1 EXCEPT !.st = Push(@, PlainFrame("getCsrfToken", "awaitResp"))]
  IN CallRequest(k2, s, "csrf", TRUE, Null, 0, FALSE)

\* Variant: no test of this.refresh before the call.
CallRefreshUnguarded(k, s) ==
  CallRequest([Entered(k, "refreshAccessToken", "none", s)
                 EXCEPT !.st = Push(@, PlainFrame("refreshAccessToken", "awaitResp"))],
              s, "refresh", FALSE, s.refresh, 0, FALSE)

\* Variant: the refresh request itself is made with refresh on expiry allowed.
CallRefreshWithRecovery(k, s) ==
  LET k1 == Entered(k, "refreshAccessToken", "none", s)
  IN IF ~Truthy(s.refresh)
     THEN [k1 EXCEPT !.ret = BoolRet(FALSE), !.retFn = "refreshAccessToken"]
     ELSE CallRequest([k1 EXCEPT !.st = Push(@, PlainFrame("refreshAccessToken", "awaitResp"))],
                      s, "refresh", TRUE, s.refresh, 0, FALSE)

\* refreshAccessToken() from its entry to its first await
CallRefreshAccessToken(k, s) ==
  LET k1 == Entered(k, "refreshAccessToken", "none", s)
  IN IF ~Truthy(s.refresh)
     THEN [k1 EXCEPT !.ret = BoolRet(FALSE), !.retFn = "refreshAccessToken"]
     ELSE CallRequest([k1 EXCEPT !.st = Push(@, PlainFrame("refreshAccessToken", "awaitResp"))],
                      s, "refresh", FALSE, s.refresh, 0, FALSE)

\* Variant: the retry leaves refresh-on-expiry enabled.
RetryWithRefresh(k, s, f) == CallRequest(k, s, f.ep, TRUE, f.auth, f.sent, TRUE)

\* return this.request<T>(endpoint, options, false)
Retry(k, s, f) == CallRequest(k, s, f.ep, FALSE, f.auth, f.sent, TRUE)

\* Variant: the catch block re-issues the call while maxRetries allows.
CatchAndRetry(k, s, f) ==
  IF f.sent < MaxRetries
  THEN IssueFetch([k EXCEPT !.st = Pop(@)], s, f.ep, f.allow, f.auth, f.sent, f.retry)
  ELSE Returned(k, "request", FailureCaught)

\* catch (error) { ...; return {success: false, status: 0, error: {...}} }
CatchTransportError(k, s, f) == Returned(k, "request", FailureCaught)

\* ------------------------------------------------------------ the remote
\* The remote is a black box: it may answer any call with any head and any
\* body, except that an endpoint in `pinned` repeats its first answer.
HeadChoices(ep) ==
  IF ep \in pinned /\ pin[ep].head # NoHead THEN {pin[ep].head} ELSE Heads
BodyChoices(ep) ==
  IF ep \in pinned /\ pin[ep].body # NoBody THEN {pin[ep].body} ELSE Bodies
NoPin == [ep \in Endpoints |-> [head |-> NoHead, body |-> NoBody]]

\* -------------------------------------------------------------- history
\* in: what the step consumed (the head or body the transport settled with,
\* or the value the awaited call settled with), cut down to what request(),
\* login() and refreshAccessToken() test of it.
MkIn(kind, success, b, at, rt, msg) ==
  [kind |-> kind, success |-> success, b |-> b, access_token |-> at, refresh_token |-> rt,
   msg |-> msg]
NoIn == MkIn("none", FALSE, FALSE, Null, Null, Null)
InHead(h) == MkIn(h.kind, FALSE, FALSE, Null, Null, Null)
InBody(b) == MkIn(b.kind, FALSE, FALSE, Null, Null, b.msg)
InRet(r) == MkIn(r.tag, r.success, r.b, r.data.access_token, r.data.refresh_token, r.data.msg)
\* frame: the suspended function the step resumed (fn "start": a top-level
\* call begins; fn "logout"); pre: the session before the step.
MkEv(t, f, i, k, pre) ==
  [task |-> t, frame |-> f, in |-> i, pre |-> pre,
   calls |-> k.calls, issued |-> k.issued, retFn |-> k.retFn, retVal |-> k.ret]

NoOp == [name |-> "none", ep |-> "none", allow |-> FALSE]

\* What every step of task t does with its run k.
Commit(t, k, e) ==
  /\ stack' = [stack EXCEPT ![t] = k.st]
  /\ ret' = [ret EXCEPT ![t] = IF k.st = <<>> THEN NoRet ELSE k.ret]
  /\ ev' = e
  /\ topCalls' = [topCalls EXCEPT ![t] =
                    IF k.st = <<>> THEN 0
                    ELSE IF k.issued.ep = op[t].ep THEN @ + 1 ELSE @]
  /\ op' = [op EXCEPT ![t] = IF k.st = <<>> THEN NoOp ELSE @]
  /\ inFlight' = [inFlight EXCEPT ![t] = IF Len(k.st) < @ THEN Len(k.st) ELSE @]
  /\ UNCHANGED <<pinned, phase, snap, logouts>>
  /\ UNCHANGED cacheVars

AtAwait(t, fn, pc) ==
  /\ stack[t] # <<>>
  /\ Top(stack[t]).fn = fn
  /\ Top(stack[t]).pc = pc

\* ------------------------------------------------------ top-level calls
\* A task slot is free when its stack is empty.  The value a top-level call
\* settles with goes to its caller, outside the client: ev.retVal shows it.
Begin(t, o, k) ==
  /\ stack[t] = <<>>
  /\ op' = [op EXCEPT ![t] = o]
  /\ stack' = [stack EXCEPT ![t] = k.st]
  /\ ret' = [ret EXCEPT ![t] = k.ret]
  /\ topCalls' = [topCalls EXCEPT ![t] = IF k.issued.ep = o.ep THEN 1 ELSE 0]
  /\ ev' = MkEv(t, PlainFrame("start", o.name), NoIn, k, Sess)
  /\ UNCHANGED <<token, refresh, csrf, cookies, lastAuth, pinned, pin, logouts, inFlight>>
  /\ UNCHANGED cacheVars

\* client.login()
StartLogin(t) ==
  /\ Begin(t, [name |-> "login", ep |-> "login", allow |-> FALSE], CallLogin(MkRun(<<>>), Sess))
  /\ UNCHANGED <<phase, snap>>

\* client.get(endpoint) / post / put / delete: return this.request(endpoint, options)
StartGet(t, ep) ==
  /\ Begin(t, [name |-> "get", ep |-> ep, allow |-> TRUE],
           CallRequest(MkRun(<<>>), Sess, ep, TRUE, Null, 0, FALSE))
  /\ UNCHANGED <<phase, snap>>

\* client.getCsrfToken()
GetCsrfTokenCall(t) ==
  Begin(t, [name |-> "getCsrfToken", ep |-> "csrf", allow |-> TRUE],
        CallGetCsrfToken(MkRun(<<>>), Sess))
StartGetCsrfToken(t) ==
  /\ GetCsrfTokenCall(t)
  /\ UNCHANGED <<phase, snap>>

\* Variant: the cookie jar is kept.
LogoutKeepsCookies(s) == [token |-> Null, refresh |-> Null, csrf |-> Null, cookies |-> s.cookies]

\* client.logout(): synchronous, no await
LogoutSession(s) == [token |-> Null, refresh |-> Null, csrf |-> Null, cookies |-> EmptyJar]
Logout ==
  LET s == LogoutSession(Sess)
  IN /\ logouts < MaxLogouts
     /\ logouts' = logouts + 1
     /\ inFlight' = [t \in Tasks |-> Len(stack[t])]
     /\ token' = s.token
     /\ refresh' = s.refresh
     /\ csrf' = s.csrf
     /\ cookies' = s.cookies
     /\ lastAuth' = "cleared"
     /\ ev' = MkEv(0, PlainFrame("logout", "none"), NoIn, MkRun(<<>>), Sess)
     /\ UNCHANGED <<stack, ret, op, topCalls, pinned, pin, phase, snap>>
     /\ UNCHANGED cacheVars

\* ------------------------------------------------- the steps of request()
\* const response = await fetch(...) settles; then the Set-Cookie handling,
\* up to the await on the body.
RequestFetchSettles(t, h) ==
  /\ AtAwait(t, "request", "fetch")
  /\ LET f == Top(stack[t])
         k0 == MkRun(stack[t])
         k == IF h.kind = "throw"
              THEN CatchTransportError(k0, Sess, f)
              ELSE [k0 EXCEPT !.st[Len(stack[t])].pc = "body",
                              !.st[Len(stack[t])].status = h.status]
     IN /\ h \in HeadChoices(f.ep)
        /\ pin' = IF f.ep \in pinned THEN [pin EXCEPT ![f.ep].head = h] ELSE pin
        /\ cookies' = IF h.kind = "throw" THEN cookies ELSE StoreCookies(cookies, f.ep, h.setCookie)
        /\ Commit(t, k, MkEv(t, f, InHead(h), k, Sess))
        /\ UNCHANGED <<token, refresh, csrf, lastAuth>>

\* The result of a response whose body was read
ResultOf(status, body) ==
  RespRet(ResponseOk(status), status,
          IF ResponseOk(status) THEN "none" ELSE ErrorMessage(body), body)

\* data = await response.json() / text() settles; then the result is built,
\* and on 401-expired refreshAccessToken() is called and awaited.
RequestBodySettles(t, b) ==
  /\ AtAwait(t, "request", "body")
  /\ LET f == Top(stack[t])
         k0 == MkRun(stack[t])
         k == IF b.kind = "throw" \/ (b.kind = "null" /\ ~ResponseOk(f.status))
              THEN \* response.json() rejects, or data.message reads a field of null
                   CatchTransportError(k0, Sess, f)
              ELSE IF ShouldRefresh(f.status, f.allow, b)
              THEN CallRefreshAccessToken(
                     [k0 EXCEPT !.st[Len(stack[t])].pc = "awaitRefresh",
                                !.st[Len(stack[t])].data = b], Sess)
              ELSE Returned(k0, "request", ResultOf(f.status, b))
     IN /\ b \in BodyChoices(f.ep)
        /\ pin' = IF f.ep \in pinned THEN [pin EXCEPT ![f.ep].body = b] ELSE pin
        /\ Commit(t, k, MkEv(t, f, InBody(b), k, Sess))
        /\ UNCHANGED <<token, refresh, csrf, cookies, lastAuth>>

\* ... && await this.refreshAccessToken() settles: retry, or return the result
RequestAfterRefresh(t) ==
  /\ AtAwait(t, "request", "awaitRefresh")
  /\ LET f == Top(stack[t])
         r == ret[t]
         k0 == MkRun(stack[t])
         k == IF r.tag = "throw" THEN CatchTransportError(k0, Sess, f)
              ELSE IF r.b THEN Retry(MkRun(Pop(stack[t])), Sess, f)
              ELSE Returned(k0, "request", ResultOf(f.status, f.data))
     IN /\ Commit(t, k, MkEv(t, Top(stack[t]), InRet(r), k, Sess))
        /\ UNCHANGED <<token, refresh, csrf, cookies, lastAuth, pin>>

\* ... && !await this.login() settles: the synthesized 401, or on to the fetch
RequestAfterLogin(t) ==
  /\ AtAwait(t, "request", "awaitLogin")
  /\ LET f == Top(stack[t])
         r == ret[t]
         k0 == MkRun(stack[t])
         k == IF r.tag = "throw" THEN Returned(k0, "request", ThrowRet)
              ELSE IF ~r.b THEN Returned(k0, "request", FailureUnauthenticated)
              ELSE IssueFetch(MkRun(Pop(stack[t])), Sess, f.ep, f.allow, f.auth, f.sent, f.retry)
     IN /\ Commit(t, k, MkEv(t, Top(stack[t]), InRet(r), k, Sess))
        /\ UNCHANGED <<token, refresh, csrf, cookies, lastAuth, pin>>

\* --------------------------------------------------- the steps of login()
\* Variant: the two tokens are stored in each other's field.
LoginStoreSwapped(s, r) ==
  [s EXCEPT !.token = r.data.refresh_token, !.refresh = r.data.access_token]

\* this.token = response.data.access_token; this.refresh = response.data.refresh_token
LoginStore(s, r) ==
  [s EXCEPT !.token = r.data.access_token, !.refresh = r.data.refresh_token]

\* Variant: a login() that logout() found in flight stores nothing.
LoginAfterResponseUnlessLoggedOut(t) ==
  /\ AtAwait(t, "login", "awaitResp")
  /\ LET r == ret[t]
         ok == LoginSucceeded(r) /\ Len(stack[t]) > inFlight[t]
         s1 == LoginStore(Sess, r)
         k0 == MkRun(stack[t])
         k == IF ok
              THEN CallGetCsrfToken([k0 EXCEPT !.st[Len(stack[t])].pc = "awaitCsrf"], s1)
              ELSE Returned(k0, "login", BoolRet(FALSE))
     IN /\ token' = IF ok THEN s1.token ELSE token
        /\ refresh' = IF ok THEN s1.refresh ELSE refresh
        /\ lastAuth' = IF ok THEN "set" ELSE lastAuth
        /\ Commit(t, k, MkEv(t, Top(stack[t]), InRet(r), k, Sess))
        /\ UNCHANGED <<csrf, cookies, pin>>

\* const response = await this.request('/api/v1/security/login', ...) settles
LoginAfterResponse(t) ==
  /\ AtAwait(t, "login", "awaitResp")
  /\ LET r == ret[t]
         ok == LoginSucceeded(r)
         s1 == LoginStore(Sess, r)
         k0 == MkRun(stack[t])
         k == IF ok
              THEN CallGetCsrfToken([k0 EXCEPT !.st[Len(stack[t])].pc = "awaitCsrf"], s1)
              ELSE Returned(k0, "login", BoolRet(FALSE))
     IN /\ token' = IF ok THEN s1.token ELSE token
        /\ refresh' = IF ok THEN s1.refresh ELSE refresh
        /\ lastAuth' = IF ok THEN "set" ELSE lastAuth
        /\ Commit(t, k, MkEv(t, Top(stack[t]), InRet(r), k, Sess))
        /\ UNCHANGED <<csrf, cookies, pin>>

\* Variant: login() returns whether getCsrfToken() returned a token.
LoginAfterCsrfChecked(t) ==
  /\ AtAwait(t, "login", "awaitCsrf")
  /\ LET r == ret[t]
         k == Returned(MkRun(stack[t]), "login", BoolRet(Truthy(r.s)))
     IN /\ Commit(t, k, MkEv(t, Top(stack[t]), InRet(r), k, Sess))
        /\ UNCHANGED <<token, refresh, csrf, cookies, lastAuth, pin>>

\* await this.getCsrfToken() settles: its result is not looked at; return true
LoginAfterCsrf(t) ==
  /\ AtAwait(t, "login", "awaitCsrf")
  /\ LET r == ret[t]
         k == Returned(MkRun(stack[t]), "login", BoolRet(r.tag # "throw"))
     IN /\ Commit(t, k, MkEv(t, Top(stack[t]), InRet(r), k, Sess))
        /\ UNCHANGED <<token, refresh, csrf, cookies, lastAuth, pin>>

\* ------------------------------------- the step of refreshAccessToken()
\* Variant: the refreshed token is not stored.
RefreshAfterResponseKeepsToken(t) ==
  /\ AtAwait(t, "refreshAccessToken", "awaitResp")
  /\ LET r == ret[t]
         ok == RefreshSucceeded(r)
         k == Returned(MkRun(stack[t]), "refreshAccessToken", BoolRet(ok))
     IN /\ Commit(t, k, MkEv(t, Top(stack[t]), InRet(r), k, Sess))
        /\ UNCHANGED <<token, refresh, csrf, cookies, lastAuth, pin>>

\* const response = await this.request('/api/v1/security/refresh', ...) settles
RefreshAfterResponse(t) ==
  /\ AtAwait(t, "refreshAccessToken", "awaitResp")
  /\ LET r == ret[t]
         ok == RefreshSucceeded(r)
         k == Returned(MkRun(stack[t]), "refreshAccessToken", BoolRet(ok))
     IN /\ token' = IF ok THEN r.data.access_token ELSE token
        /\ lastAuth' = IF ok THEN "set" ELSE lastAuth
        /\ Commit(t, k, MkEv(t, Top(stack[t]), InRet(r), k, Sess))
        /\ UNCHANGED <<refresh, csrf, cookies, pin>>

\* ------------------------------------------- the step of getCsrfToken()
GetCsrfTokenAfterResponse(t) ==
  /\ AtAwait(t, "getCsrfToken", "awaitResp")
  /\ LET r == ret[t]
         ok == CsrfSucceeded(r)
         k == Returned(MkRun(stack[t]), "getCsrfToken",
                       StrRet(IF ok THEN r.data.result ELSE Null))
     IN /\ csrf' = IF ok THEN r.data.result ELSE csrf
        /\ Commit(t, k, MkEv(t, Top(stack[t]), InRet(r), k, Sess))
        /\ UNCHANGED <<token, refresh, cookies, lastAuth, pin>>

\* ============================================== the server: cached metadata
\* A string is the sequence of its characters; a character is a one-character
\* string, or the code point of a character outside ASCII ("U+6761").
UpperCase == <<"A", "B", "C", "D", "E", "F", "G", "H", "I", "J", "K", "L", "M",
               "N", "O", "P", "Q", "R", "S", "T", "U", "V", "W", "X", "Y", "Z">>
LowerCase == <<"a", "b", "c", "d", "e", "f", "g", "h", "i", "j", "k", "l", "m",
               "n", "o", "p", "q", "r", "s", "t", "u", "v", "w", "x", "y", "z">>
Digits == <<"0", "1", "2", "3", "4", "5", "6", "7", "8", "9">>
Whitespace == {" ", "\t", "\n"}
NaN == [isNaN |-> TRUE, value |-> 0]
Number(n) == [isNaN |-> FALSE, value |-> n]

LowerOf(c) ==
  IF \E i \in DOMAIN UpperCase : UpperCase[i] = c
  THEN LowerCase[CHOOSE i \in DOMAIN UpperCase : UpperCase[i] = c]
  ELSE c

\* s.toLowerCase()
ToLowerCase(s) == [i \in 1..Len(s) |-> LowerOf(s[i])]

SetMin(S) == CHOOSE x \in S : \A y \in S : x <= y
SetMax(S) == CHOOSE x \in S : \A y \in S : x >= y

\* s.indexOf(sub): the first place, from 0, or -1
IndexOf(s, sub) ==
  LET at == {i \in 0..(Len(s) - Len(sub)) : SubSeq(s, i + 1, i + Len(sub)) = sub}
  IN IF at = {} THEN -1 ELSE SetMin(at)

\* s.includes(sub)
Includes(s, sub) == IndexOf(s, sub) # -1

\* s.substring(from)
Substring(s, from) == SubSeq(s, from + 1, Len(s))

\* s.trim()
TrimString(s) ==
  LET ink == {i \in 1..Len(s) : s[i] \notin Whitespace}
  IN IF ink = {} THEN <<>> ELSE SubSeq(s, SetMin(ink), SetMax(ink))

\* s.replace(/['"]/g, "")
IsQuote(c) == c \in {"'", "\""}
NotQuote(c) == ~IsQuote(c)
RemoveQuotes(s) == SelectSeq(s, NotQuote)

\* s.split(/\s+/)[0]
FirstToken(s) ==
  LET ws == {i \in 1..Len(s) : s[i] \in Whitespace}
  IN IF ws = {} THEN s ELSE SubSeq(s, 1, SetMin(ws) - 1)

DigitValue(c) == (CHOOSE i \in DOMAIN Digits : Digits[i] = c) - 1
IsDigit(c) == \E i \in DOMAIN Digits : Digits[i] = c

RECURSIVE DigitsValue(_)
DigitsValue(s) ==
  IF s = <<>> THEN 0
  ELSE 10 * DigitsValue(SubSeq(s, 1, Len(s) - 1)) + DigitValue(s[Len(s)])

\* parseInt(s): leading whitespace, a sign, then the longest run of decimal
\* digits; NaN when there is no digit.
ParseInt(s) ==
  LET t == TrimString(s)
      signed == t # <<>> /\ t[1] \in {"+", "-"}
      u == IF signed THEN Tail(t) ELSE t
      stop == {i \in 1..Len(u) : ~IsDigit(u[i])}
      run == IF stop = {} THEN u ELSE SubSeq(u, 1, SetMin(stop) - 1)
  IN IF run = <<>> THEN NaN
     ELSE IF signed /\ t[1] = "-" THEN Number(0 - DigitsValue(run))
     ELSE Number(DigitsValue(run))

\* `${n}` for a positive integer n
RECURSIVE IntToString(_)
IntToString(n) ==
  IF n < 10 THEN <<Digits[n + 1]>>
  ELSE IntToString(n \div 10) \o <<Digits[(n % 10) + 1]>>

\* --------------------------------------------------------- cached values
\* A Database is known by its id; a Table by its name and schema; a Field by
\* its name.  A Map is a function on the keys it has.
Database(id) == [id |-> id]
Table(name, schema) == [name |-> name, schema |-> schema]
Field(name) == [name |-> name]
EmptyMap == <<>>
MapHas(m, k) == k \in DOMAIN m
MapSet(m, k, v) == [x \in DOMAIN m \cup {k} |-> IF x = k THEN v ELSE m[x]]

\* tablesCache.get(db.id) || []
TablesOf(tabs, id) == IF MapHas(tabs, id) THEN tabs[id] ELSE <<>>

\* ------------------------------------------------------ findMatchingTable
NoMatch == [found |-> FALSE, database |-> Database(0), table |-> Table(<<>>, <<>>)]
Match(db, t) == [found |-> TRUE, database |-> db, table |-> t]

\* Variant: the names are compared as they are spelled.
NameInQueryCaseSensitive(query, t) == Includes(query, t.name)

\* query.toLowerCase().includes(table.name.toLowerCase())
NameInQuery(query, t) == Includes(ToLowerCase(query), ToLowerCase(t.name))

\* for (const table of tables) { if (...) return ... }, from table j on
RECURSIVE ScanTables(_, _, _, _)
ScanTables(query, db, tables, j) ==
  IF j > Len(tables) THEN NoMatch
  ELSE IF NameInQuery(query, tables[j]) THEN Match(db, tables[j])
  ELSE ScanTables(query, db, tables, j + 1)

\* for (const db of databasesCache) { ... }, from database i on
RECURSIVE ScanDatabases(_, _, _, _)
ScanDatabases(query, dbs, tabs, i) ==
  IF i > Len(dbs) THEN NoMatch
  ELSE LET m == ScanTables(query, dbs[i], TablesOf(tabs, dbs[i].id), 1)
       IN IF m.found THEN m ELSE ScanDatabases(query, dbs, tabs, i + 1)

\* Variant: the fallback is the first table of the first database that has one.
RECURSIVE FirstTableOfAny(_, _, _)
FirstTableOfAny(dbs, tabs, i) ==
  IF i > Len(dbs) THEN NoMatch
  ELSE IF TablesOf(tabs, dbs[i].id) # <<>>
       THEN Match(dbs[i], TablesOf(tabs, dbs[i].id)[1])
       ELSE FirstTableOfAny(dbs, tabs, i + 1)
FallbackAnyDatabase(dbs, tabs) == FirstTableOfAny(dbs, tabs, 1)

\* if (databasesCache.length > 0) { ... firstDbTables[0] ... } return null
Fallback(dbs, tabs) ==
  IF Len(dbs) > 0 /\ Len(TablesOf(tabs, dbs[1].id)) > 0
  THEN Match(dbs[1], TablesOf(tabs, dbs[1].id)[1])
  ELSE NoMatch

findMatchingTable(query, dbs, tabs) ==
  LET m == ScanDatabases(query, dbs, tabs, 1)
  IN IF m.found THEN m ELSE Fallback(dbs, tabs)

\* ------------------------------------------------------- generateSqlQuery
FilterKeywords == <<<<"w", "h", "e", "r", "e">>, <<"f", "i", "l", "t", "e", "r">>, <<"U+6761", "U+4EF6">>, <<"U+7B5B", "U+9009">>>>
LimitKeywords == <<<<"l", "i", "m", "i", "t">>, <<"t", "o", "p">>, <<"U+9650", "U+5236">>, <<"U+524D">>>>
DefaultLimit == 10

Quoted(s) == <<"\"">> \o s \o <<"\"">>

\* fields.map(f => `"${f.name}"`).join(", ")
RECURSIVE JoinNames(_, _)
JoinNames(fields, i) ==
  IF i > Len(fields) THEN <<>>
  ELSE (IF i > 1 THEN <<",", " ">> ELSE <<>>) \o Quoted(fields[i].name)
       \o JoinNames(fields, i + 1)

\* query.substring(keywordIndex + keyword.length).trim()
TextAfter(query, keyword) ==
  TrimString(Substring(query, IndexOf(ToLowerCase(query), keyword) + Len(keyword)))

KeywordFound(query, keyword) == IndexOf(ToLowerCase(query), keyword) # -1

\* Variant: the field name is looked for as it is written.
FieldsInConditionCaseSensitive(condition, fields) ==
  {i \in 1..Len(fields) : Includes(condition, fields[i].name)}

\* for (const field of fields) { if (condition includes the name) { ...; break } }
FieldsInCondition(condition, fields) ==
  {i \in 1..Len(fields) : Includes(ToLowerCase(condition), ToLowerCase(fields[i].name))}

\* Variant: the pattern is the text after the field name.
WhereOfAfterField(condition, field) ==
  <<"W", "H", "E", "R", "E">> \o <<" ">> \o Quoted(field.name) \o <<" ", "L", "I", "K", "E", " ", "'", "%">>
  \o RemoveQuotes(TrimString(Substring(condition,
        IndexOf(ToLowerCase(condition), ToLowerCase(field.name)) + Len(field.name))))
  \o <<"%", "'">>

\* `WHERE "${field.name}" LIKE '%${condition.replace(/['"]/g, "")}%'`
WhereOf(condition, field) ==
  <<"W", "H", "E", "R", "E">> \o <<" ">> \o Quoted(field.name) \o <<" ", "L", "I", "K", "E", " ", "'", "%">>
  \o RemoveQuotes(condition) \o <<"%", "'">>

\* for (const keyword of keywords) { ... }: the clause after keywords k..
RECURSIVE WhereClause(_, _, _, _)
WhereClause(query, fields, k, clause) ==
  IF k > Len(FilterKeywords) THEN clause
  ELSE LET kw == FilterKeywords[k]
           condition == TextAfter(query, kw)
           hit == FieldsInCondition(condition, fields)
       IN WhereClause(query, fields, k + 1,
            IF KeywordFound(query, kw) /\ condition # <<>> /\ hit # {}
            THEN WhereOf(condition, fields[SetMin(hit)])
            ELSE clause)

LimitOf(n) == <<"L", "I", "M", "I", "T">> \o <<" ">> \o IntToString(n)

\* Variant: the loop stops at the first keyword followed by a number.
RECURSIVE LimitClauseFirstWins(_, _, _)
LimitClauseFirstWins(query, k, clause) ==
  IF k > Len(LimitKeywords) THEN clause
  ELSE LET kw == LimitKeywords[k]
           limit == ParseInt(FirstToken(TextAfter(query, kw)))
       IN IF KeywordFound(query, kw) /\ ~limit.isNaN /\ limit.value > 0
          THEN LimitOf(limit.value)
          ELSE LimitClauseFirstWins(query, k + 1, clause)

\* for (const keyword of limitKeywords) { ... }
RECURSIVE LimitClause(_, _, _)
LimitClause(query, k, clause) ==
  IF k > Len(LimitKeywords) THEN clause
  ELSE LET kw == LimitKeywords[k]
           limit == ParseInt(FirstToken(TextAfter(query, kw)))
       IN LimitClause(query, k + 1,
            IF KeywordFound(query, kw) /\ ~limit.isNaN /\ limit.value > 0
            THEN LimitOf(limit.value)
            ELSE clause)

\* `SELECT ${fieldNames} FROM "${table.schema}"."${table.name}" ${whereClause} ${limitClause}`
generateSqlQuery(query, table, fields) ==
  <<"S", "E", "L", "E", "C", "T">> \o <<" ">> \o JoinNames(fields, 1) \o <<" ">> \o <<"F", "R", "O", "M">> \o <<" ">>
  \o Quoted(table.schema) \o <<".">> \o Quoted(table.name) \o <<" ">>
  \o WhereClause(query, fields, 1, <<>>) \o <<" ">>
  \o LimitClause(query, 1, LimitOf(DefaultLimit))

\* --------------------------------------------------- the server's processes
NumProcs == 2          \* initializeCache runs and tool calls that may be in flight together
MaxRuns == 2           \* initializeCache runs in one behaviour, the startup run included
MaxToolCalls == 2      \* tool calls in one behaviour
Procs == 1..NumProcs

\* What an awaited service call settles with: a value, or a rejection.
Rejected == [ok |-> FALSE]
Resolved(v) == [ok |-> TRUE, value |-> v]
NoInput == [ok |-> FALSE, none |-> TRUE]
\* A value that may be undefined.
Undefined == [defined |-> FALSE]
Some(v) == [defined |-> TRUE, v |-> v]

IdleProc == [fn |-> "idle"]
NoReturn == [fn |-> "none", kind |-> "none", value |-> <<>>]
Return(fn, kind, value) == [fn |-> fn, kind |-> kind, value |-> value]
TextResult(tool, kind) == Return(tool, kind, <<>>)
NoLookup == [key |-> <<>>, hit |-> FALSE, returned |-> FALSE, value |-> Undefined]
NoCev == [proc |-> 0, fn |-> "none", at |-> "none", in |-> NoInput, calls |-> <<>>,
          runs |-> 0, ret |-> NoReturn, lookup |-> NoLookup,
          replaced |-> [tables |-> {}, fields |-> {}]]
NoApp == [fn |-> "none", of |-> "none", in |-> <<>>, out |-> <<>>]
NoHeur == [fn |-> "none", query |-> <<>>, fields |-> <<>>, match |-> NoMatch, sql |-> <<>>]

\* What the remote can answer through the service, within the bounds.
SchemaP == <<"p">>
SchemaQ == <<"q">>
TableA == <<"a">>
TableB == <<"B", "c">>
FieldId == Field(<<"i", "d">>)
FieldStatus == Field(<<"s", "t", "a", "t", "u", "s">>)
DatabasesResults ==
  {Rejected} \cup {Resolved(l) : l \in {<<>>, <<Database(1)>>, <<Database(1), Database(2)>>}}
SchemasResults ==
  {Rejected} \cup {Resolved(l) : l \in {<<>>, <<SchemaP>>, <<SchemaP, SchemaQ>>}}
TablesResults(schema) ==
  {Rejected} \cup {Resolved(l) : l \in {<<>>, <<Table(TableA, schema)>>}}
MetadataResults ==
  {Rejected} \cup {Resolved([columns |-> Undefined])}
             \cup {Resolved([columns |-> Some(c)]) : c \in {<<>>, <<FieldId>>}}

\* A call into the service, as the step that makes it records it.
ServiceCall(name, args) == [name |-> name, args |-> args]

\* What a step of the server comes to: the process left in the slot (idle
\* when the function has returned), the caches, the service calls made, the
\* initializeCache runs started and the value returned.
MkStep(pr, srv, calls, runs, r, lk) ==
  [proc |-> pr, srv |-> srv, calls |-> calls, runs |-> runs, ret |-> r, lookup |-> lk]

\* ----------------------------------------------------------- initializeCache
InitRunAt(pc, dbs, i, schemas, j, tables) ==
  [fn |-> "initializeCache", pc |-> pc, dbs |-> dbs, i |-> i,
   schemas |-> schemas, j |-> j, tables |-> tables]

\* initializeCache() up to its first await: await supersetApi.getDatabases()
CallInitializeCache == InitRunAt("getDatabases", <<>>, 0, <<>>, 0, <<>>)

InitializeCacheDone == Return("initializeCache", "done", <<>>)

\* for (const db of databasesCache) { try { await supersetApi.getSchemas(db.id) ...
\* from database i of the list the loop iterates.
LoopDatabases(dbs, i, srv) ==
  IF i > Len(dbs)
  THEN MkStep(IdleProc, srv, <<>>, 0, InitializeCacheDone, NoLookup)
  ELSE MkStep(InitRunAt("getSchemas", dbs, i, <<>>, 0, <<>>), srv,
              <<ServiceCall("getSchemas", <<dbs[i].id>>)>>, 0, NoReturn, NoLookup)

\* Variant: a failure for one database ends the run.
CatchAndAbort(pr, srv) == MkStep(IdleProc, srv, <<>>, 0, InitializeCacheDone, NoLookup)

\* catch (error) { console.error(...) } inside the loop: on to the next database
CatchDatabaseFailure(pr, srv) == LoopDatabases(pr.dbs, pr.i + 1, srv)

\* Variant: a failed fetch drops what was cached for the database.
TablesFailedDropEntry(pr, srv) ==
  CatchDatabaseFailure(pr,
    [srv EXCEPT !.tablesCache = [id \in DOMAIN @ \ {pr.dbs[pr.i].id} |-> @[id]]])

\* A rejected getTables: tablesCache.set is not reached.
TablesFailed(pr, srv) == CatchDatabaseFailure(pr, srv)

\* Variant: the list is iterated and the database cache is left unassigned.
AfterDatabasesUnassigned(pr, srv, r) ==
  IF ~r.ok
  THEN MkStep(IdleProc, srv, <<>>, 0, InitializeCacheDone, NoLookup)
  ELSE LoopDatabases(r.value, 1, srv)

\* databasesCache = await supersetApi.getDatabases(), and the loop's first call
AfterDatabases(pr, srv, r) ==
  IF ~r.ok
  THEN MkStep(IdleProc, srv, <<>>, 0, InitializeCacheDone, NoLookup)
  ELSE LoopDatabases(r.value, 1, [srv EXCEPT !.databasesCache = r.value])

\* const schemas = await supersetApi.getSchemas(db.id)
AfterSchemas(pr, srv, r) ==
  IF ~r.ok THEN CatchDatabaseFailure(pr, srv)
  ELSE IF Len(r.value) = 0 THEN LoopDatabases(pr.dbs, pr.i + 1, srv)
  ELSE MkStep(InitRunAt("getTables", pr.dbs, pr.i, r.value, 1, <<>>), srv,
              <<ServiceCall("getTables", <<pr.dbs[pr.i].id, r.value[1]>>)>>,
              0, NoReturn, NoLookup)

\* tables.push(...await supersetApi.getTables(db.id, schema)); after the last
\* schema, tablesCache.set(db.id, tables)
AfterTables(pr, srv, r) ==
  IF ~r.ok THEN TablesFailed(pr, srv)
  ELSE LET tables == pr.tables \o r.value
       IN IF pr.j = Len(pr.schemas)
          THEN LoopDatabases(pr.dbs, pr.i + 1,
                 [srv EXCEPT !.tablesCache = MapSet(@, pr.dbs[pr.i].id, tables)])
          ELSE MkStep(InitRunAt("getTables", pr.dbs, pr.i, pr.schemas, pr.j + 1, tables), srv,
                      <<ServiceCall("getTables", <<pr.dbs[pr.i].id, pr.schemas[pr.j + 1]>>)>>,
                      0, NoReturn, NoLookup)

\* ------------------------------------------------------------ getTableFields
\* const cacheKey = `${databaseId}:${schema}:${tableName}`
CacheKey(databaseId, schema, tableName) ==
  IntToString(databaseId) \o <<":">> \o schema \o <<":">> \o tableName

\* A getTableFields call as the step that makes it records it: its key,
\* whether the cache had it, and the value returned if it has returned.
Lookup(databaseId, schema, tableName, hit, returned, v) ==
  [key |-> <<databaseId, schema, tableName>>, hit |-> hit, returned |-> returned, value |-> v]

\* return fieldsCache.get(cacheKey) || []
StoredFields(flds, cacheKey) ==
  IF flds[cacheKey].defined THEN flds[cacheKey] ELSE Some(<<>>)

\* Variant: the remote is asked although the key is cached.
FieldsCachedNever(flds, cacheKey) == FALSE

\* fieldsCache.has(cacheKey)
FieldsCached(flds, cacheKey) == MapHas(flds, cacheKey)

\* Variant: a failed call is memoized as an empty list.
StoreFieldsOrEmpty(srv, cacheKey, r) ==
  [srv EXCEPT !.fieldsCache = MapSet(@, cacheKey, IF r.ok THEN r.value.columns ELSE Some(<<>>))]

\* Variant: an entry that is already stored is kept.
StoreFieldsIfAbsent(srv, cacheKey, r) ==
  IF ~r.ok \/ MapHas(srv.fieldsCache, cacheKey) THEN srv
  ELSE [srv EXCEPT !.fieldsCache = MapSet(@, cacheKey, r.value.columns)]

\* try { metadata = await ...; fieldsCache.set(cacheKey, metadata.columns) } catch { }
StoreFields(srv, cacheKey, r) ==
  IF ~r.ok THEN srv
  ELSE [srv EXCEPT !.fieldsCache = MapSet(@, cacheKey, r.value.columns)]

\* return metadata.columns, or return [] from the catch
FetchedFields(r) == IF r.ok THEN r.value.columns ELSE Some(<<>>)

\* The server does nothing: the state of its part in the session's specifications.
ServerAtRest ==
  /\ databasesCache = <<>>
  /\ tablesCache = EmptyMap
  /\ fieldsCache = EmptyMap
  /\ proc = [p \in Procs |-> IdleProc]
  /\ started = 0
  /\ toolCalls = 0
  /\ cev = NoCev
  /\ heur = NoHeur
  /\ app = NoApp

\* ------------------------------------------------------ the specification
\* After construction: the constructor has called this.login(), whose
\* request is in flight (task 1); nothing else runs.
InitRun == CallLogin(MkRun(<<>>), EmptySession)

Init ==
  /\ token = Null
  /\ refresh = Null
  /\ csrf = Null
  /\ cookies = EmptyJar
  /\ stack = [t \in Tasks |-> IF t = 1 THEN InitRun.st ELSE <<>>]
  /\ ret = [t \in Tasks |-> NoRet]
  /\ op = [t \in Tasks |-> IF t = 1 THEN [name |-> "login", ep |-> "login", allow |-> FALSE]
                           ELSE NoOp]
  /\ topCalls = [t \in Tasks |-> IF t = 1 THEN 1 ELSE 0]
  /\ lastAuth = "none"
  /\ ev = MkEv(1, PlainFrame("start", "login"), NoIn, InitRun, EmptySession)
  /\ logouts = 0
  /\ inFlight = [t \in Tasks |-> 0]
  /\ pinned = {}
  /\ pin = NoPin
  /\ phase = "free"
  /\ snap = [sess |-> EmptySession, ret |-> NoRet]
  /\ ServerAtRest

Next ==
  \/ \E t \in Tasks : StartLogin(t)
  \/ \E t \in Tasks, ep \in DataEndpoints : StartGet(t, ep)
  \/ \E t \in Tasks : StartGetCsrfToken(t)
  \/ Logout
  \/ \E t \in Tasks, h \in Heads : RequestFetchSettles(t, h)
  \/ \E t \in Tasks, b \in Bodies : RequestBodySettles(t, b)
  \/ \E t \in Tasks : RequestAfterLogin(t)
  \/ \E t \in Tasks : RequestAfterRefresh(t)
  \/ \E t \in Tasks : LoginAfterResponse(t)
  \/ \E t \in Tasks : LoginAfterCsrf(t)
  \/ \E t \in Tasks : RefreshAfterResponse(t)
  \/ \E t \in Tasks : GetCsrfTokenAfterResponse(t)

Spec == Init /\ [][Next]_vars

\* The steps that resume task t: a transport call of its request() settles,
\* or a promise one of its functions awaits.  Each transport call returns and
\* the runtime runs every continuation whose promise has settled, so a task
\* that can be resumed is resumed.
Resume(t) ==
  \/ \E h \in Heads : RequestFetchSettles(t, h)
  \/ \E b \in Bodies : RequestBodySettles(t, b)
  \/ RequestAfterLogin(t)
  \/ RequestAfterRefresh(t)
  \/ LoginAfterResponse(t)
  \/ LoginAfterCsrf(t)
  \/ RefreshAfterResponse(t)
  \/ GetCsrfTokenAfterResponse(t)

SpecLive == Spec /\ \A t \in Tasks : WF_vars(Resume(t))

\* ------------------------------------------------------ overlapping calls
\* Several callers share the client.  A caller is an async function that
\* awaits client.get('/api/v1/database/') once and keeps the result
\* (initializeCache, a tool handler); caller 1 is the one that constructed
\* the client, so the constructor's login() is in flight at the start and
\* its own get follows that login.  No logout.  The remote answers 200 or
\* 401 with a body: the login endpoint alone issues the token "A1" and the
\* refresh endpoint alone the token "A2", so that a held token tells where it
\* came from.
Callers == 1..NumCallers
OverlapHeads == {h \in Heads : h.kind = "resp" /\ h.status \in {200, 401} /\ h.setCookie = NoHeader}
LoginBody == MkBody("json", "A1", "R1", Null, Null)
RefreshBody == MkBody("json", "A2", Null, Null, Null)
OverlapBodies ==
  {LoginBody, RefreshBody, MkBody("json", Null, Null, "X1", Null),
   MkBody("json", Null, Null, Null, Expired), EmptyBody}
OverlapAnswers(ep) ==
  {b \in OverlapBodies : /\ b = LoginBody => ep = "login"
                         /\ b = RefreshBody => ep = "refresh"}

InitOverlap ==
  /\ token = Null
  /\ refresh = Null
  /\ csrf = Null
  /\ cookies = EmptyJar
  /\ stack = [t \in Callers |-> IF t = 1 THEN InitRun.st ELSE <<>>]
  /\ ret = [t \in Callers |-> NoRet]
  /\ op = [t \in Callers |-> IF t = 1 THEN [name |-> "login", ep |-> "login", allow |-> FALSE]
                             ELSE NoOp]
  /\ topCalls = [t \in Callers |-> IF t = 1 THEN 1 ELSE 0]
  /\ lastAuth = "none"
  /\ ev = MkEv(1, PlainFrame("start", "login"), NoIn, InitRun, EmptySession)
  /\ logouts = 0
  /\ inFlight = [t \in Callers |-> 0]
  /\ pinned = {}
  /\ pin = NoPin
  /\ phase = "free"
  /\ snap = [sess |-> EmptySession, ret |-> NoRet]
  /\ ServerAtRest

\* const response = await this.client.get('/api/v1/database/')
OverlapGet(t) ==
  /\ Begin(t, [name |-> "get", ep |-> "databases", allow |-> TRUE],
           CallRequest(MkRun(<<PlainFrame("caller", "awaitGet")>>), Sess, "databases",
                       TRUE, Null, 0, FALSE))
  /\ UNCHANGED <<phase, snap>>

\* the await of the caller settles: it holds the response from now on
OverlapGetReturns(t) ==
  /\ AtAwait(t, "caller", "awaitGet")
  /\ LET r == ret[t]
         k0 == MkRun(stack[t])
         k == [k0 EXCEPT !.st[Len(stack[t])].pc = "done",
                         !.st[Len(stack[t])].status = r.status,
                         !.st[Len(stack[t])].data = r.data]
     IN /\ Commit(t, k, MkEv(t, Top(stack[t]), InRet(r), k, Sess))
        /\ UNCHANGED <<token, refresh, csrf, cookies, lastAuth, pin>>

OverlapFetchSettles(t, h) ==
  /\ h \in OverlapHeads
  /\ RequestFetchSettles(t, h)

OverlapBodySettles(t, b) ==
  /\ stack[t] # <<>>
  /\ b \in OverlapAnswers(Top(stack[t]).ep)
  /\ RequestBodySettles(t, b)

\* the steps that resume caller t
OverlapResume(t) ==
  \/ \E h \in Heads : OverlapFetchSettles(t, h)
  \/ \E b \in Bodies : OverlapBodySettles(t, b)
  \/ RequestAfterLogin(t)
  \/ RequestAfterRefresh(t)
  \/ LoginAfterResponse(t)
  \/ LoginAfterCsrf(t)
  \/ RefreshAfterResponse(t)
  \/ GetCsrfTokenAfterResponse(t)
  \/ OverlapGetReturns(t)

NextOverlap ==
  \/ \E t \in Callers : OverlapGet(t)
  \/ \E t \in Callers : OverlapGetReturns(t)
  \/ \E t \in Callers, h \in Heads : OverlapFetchSettles(t, h)
  \/ \E t \in Callers, b \in Bodies : OverlapBodySettles(t, b)
  \/ \E t \in Callers : RequestAfterLogin(t)
  \/ \E t \in Callers : RequestAfterRefresh(t)
  \/ \E t \in Callers : LoginAfterResponse(t)
  \/ \E t \in Callers : LoginAfterCsrf(t)
  \/ \E t \in Callers : RefreshAfterResponse(t)
  \/ \E t \in Callers : GetCsrfTokenAfterResponse(t)

\* Every transport call returns and every settled await is resumed.
SpecOverlap == InitOverlap /\ [][NextOverlap]_vars /\ \A t \in Callers : WF_vars(OverlapResume(t))

\* -------------------------------------- getCsrfToken() twice in sequence
\* One caller calls getCsrfToken(), waits for it, and calls it again, with
\* nothing else running.  The remote repeats its first answer on the
\* endpoints in `pinned`: on the CSRF endpoint alone, or on all three
\* endpoints of the session.  The session at the first call is a fresh one
\* or one left by earlier logins and CSRF fetches.
HeldSessions ==
  {[token |-> a, refresh |-> r, csrf |-> x, cookies |-> c] :
     a \in AccessTokens, r \in RefreshTokens \cup {Null}, x \in CsrfTokens \cup {Null},
     c \in {EmptyJar, ParseSetCookie(EmptyJar, CookieA)}}

InitTwice ==
  /\ \E s \in {EmptySession} \cup HeldSessions :
       /\ token = s.token
       /\ refresh = s.refresh
       /\ csrf = s.csrf
       /\ cookies = s.cookies
       /\ ev = MkEv(0, PlainFrame("init", "none"), NoIn, MkRun(<<>>), s)
  /\ stack = [t \in Tasks |-> <<>>]
  /\ ret = [t \in Tasks |-> NoRet]
  /\ op = [t \in Tasks |-> NoOp]
  /\ topCalls = [t \in Tasks |-> 0]
  /\ lastAuth = IF IsAuthenticated(token) THEN "set" ELSE "none"
  /\ pinned \in {{"csrf"}, AuthEndpoints}
  /\ pin = NoPin
  /\ phase = "idle"
  /\ snap = [sess |-> EmptySession, ret |-> NoRet]
  /\ logouts = 0
  /\ inFlight = [t \in Tasks |-> 0]
  /\ ServerAtRest

FirstCall ==
  /\ phase = "idle"
  /\ GetCsrfTokenCall(1)
  /\ phase' = "first"
  /\ snap' = snap

\* The first call has settled: its outcome is kept, and the second call begins.
SecondCall ==
  /\ phase = "first"
  /\ stack[1] = <<>>
  /\ GetCsrfTokenCall(1)
  /\ phase' = "second"
  /\ snap' = [sess |-> Sess, ret |-> ev.retVal]

NextTwice ==
  \/ FirstCall
  \/ SecondCall
  \/ \E t \in Tasks, h \in Heads : RequestFetchSettles(t, h)
  \/ \E t \in Tasks, b \in Bodies : RequestBodySettles(t, b)
  \/ \E t \in Tasks : RequestAfterLogin(t)
  \/ \E t \in Tasks : RequestAfterRefresh(t)
  \/ \E t \in Tasks : LoginAfterResponse(t)
  \/ \E t \in Tasks : LoginAfterCsrf(t)
  \/ \E t \in Tasks : RefreshAfterResponse(t)
  \/ \E t \in Tasks : GetCsrfTokenAfterResponse(t)

SpecTwice == InitTwice /\ [][NextTwice]_vars

\* ------------------------------------------------------------ tool handlers
Srv == [databasesCache |-> databasesCache, tablesCache |-> tablesCache,
        fieldsCache |-> fieldsCache]

\* an optional string argument that is given and not empty
Given(s) == s.defined /\ s.v # <<>>

\* if (databasesCache.length === 0) { initializeCache(); return { ... "初始化缓存中..." } }
\* Variant: a cache without tables counts as empty too.
CacheEmptyOrNoTables(srv) == Len(srv.databasesCache) = 0 \/ DOMAIN srv.tablesCache = {}

CacheEmpty(srv) == Len(srv.databasesCache) = 0

\* Variant: the text is returned and no run is started.
InitializingWithoutRun(tool, srv) ==
  MkStep(IdleProc, srv, <<>>, 0, TextResult(tool, "initializing"), NoLookup)

Initializing(tool, srv) ==
  MkStep(CallInitializeCache, srv, <<ServiceCall("getDatabases", <<>>)>>, 1,
         TextResult(tool, "initializing"), NoLookup)

Answer(srv, r, lk) == MkStep(IdleProc, srv, <<>>, 0, r, lk)

\* Variant: the handler has no catch block, the exception reaches the caller.
Rethrow(tool) == Return(tool, "throw", <<>>)

\* catch (error) { ...; return { content: [{ type: "text", text: `...: ${error.message}` }] } }
CatchError(tool) == TextResult(tool, "error")

\* databasesCache.find(db => db.id === databaseId)
FindDatabase(dbs, id) ==
  LET at == {i \in 1..Len(dbs) : dbs[i].id = id}
  IN IF at = {} THEN Undefined ELSE Some(dbs[SetMin(at)])

\* tables.find(t => t.schema === schema && t.name === tableName)
FindTable(tables, schema, tableName) ==
  LET at == {i \in 1..Len(tables) : tables[i].schema = schema /\ tables[i].name = tableName}
  IN IF at = {} THEN Undefined ELSE Some(tables[SetMin(at)])

\* tables.filter(table => table.schema === schema)
FilterSchema(tables, schema) == SelectSeq(tables, LAMBDA t : t.schema = schema)

\* list-databases
ListDatabasesStep(srv) ==
  IF CacheEmpty(srv) THEN Initializing("list-databases", srv)
  ELSE Answer(srv, Return("list-databases", "databases", srv.databasesCache), NoLookup)

\* list-tables
ListTablesStep(srv, databaseId, schema) ==
  IF CacheEmpty(srv) THEN Initializing("list-tables", srv)
  ELSE IF ~FindDatabase(srv.databasesCache, databaseId).defined
  THEN Answer(srv, TextResult("list-tables", "no database"), NoLookup)
  ELSE LET held == MapHas(srv.tablesCache, databaseId)
           tables == IF held /\ Given(schema)
                     THEN FilterSchema(srv.tablesCache[databaseId], schema.v)
                     ELSE TablesOf(srv.tablesCache, databaseId)
       IN IF ~held \/ Len(tables) = 0
          THEN Answer(srv, TextResult("list-tables", "no tables"), NoLookup)
          ELSE Answer(srv, Return("list-tables", "tables", tables), NoLookup)

\* list-fields: const fields = await getTableFields(...); fields.length of an
\* undefined column list throws, and the handler's catch answers.
ListFieldsResult(fields) ==
  IF ~fields.defined THEN CatchError("list-fields")
  ELSE IF Len(fields.v) = 0 THEN TextResult("list-fields", "no fields")
  ELSE Return("list-fields", "fields", fields.v)

ListFieldsStep(srv, databaseId, schema, tableName) ==
  LET cacheKey == CacheKey(databaseId, schema, tableName)
  IN IF FieldsCached(srv.fieldsCache, cacheKey)
     THEN LET fields == StoredFields(srv.fieldsCache, cacheKey)
          IN Answer(srv, ListFieldsResult(fields),
                    Lookup(databaseId, schema, tableName, TRUE, TRUE, fields))
     ELSE MkStep([fn |-> "list-fields", pc |-> "getTableMetadata",
                  databaseId |-> databaseId, schema |-> schema, tableName |-> tableName],
                 srv, <<ServiceCall("getTableMetadata", <<databaseId, schema, tableName>>)>>,
                 0, NoReturn, Lookup(databaseId, schema, tableName, FALSE, FALSE, Undefined))

ListFieldsAfterMetadata(pr, srv, r) ==
  Answer(StoreFields(srv, CacheKey(pr.databaseId, pr.schema, pr.tableName), r),
         ListFieldsResult(FetchedFields(r)),
         Lookup(pr.databaseId, pr.schema, pr.tableName, FALSE, TRUE, FetchedFields(r)))

\* query-superset: the table the query runs on
SelectTable(srv, query, databaseId, schema, tableName) ==
  IF databaseId.defined /\ Given(schema) /\ Given(tableName)
  THEN LET db == FindDatabase(srv.databasesCache, databaseId.v)
           t == IF ~db.defined THEN Undefined
                ELSE FindTable(TablesOf(srv.tablesCache, db.v.id), schema.v, tableName.v)
       IN IF ~db.defined \/ ~t.defined THEN NoMatch ELSE Match(db.v, t.v)
  ELSE findMatchingTable(query, srv.databasesCache, srv.tablesCache)

\* executeQuery: if (!request.database_id || !request.sql) throw
RequestRefused(databaseId, sql) == databaseId = 0 \/ sql = <<>>

\* query-superset from the field list on: generateSqlQuery and executeQuery
QueryWithFields(srv, query, m, fields, lk) ==
  IF ~fields.defined THEN Answer(srv, CatchError("query-superset"), lk)
  ELSE IF Len(fields.v) = 0 THEN Answer(srv, TextResult("query-superset", "no fields"), lk)
  ELSE LET sql == generateSqlQuery(query, m.table, fields.v)
       IN IF RequestRefused(m.database.id, sql)
          THEN Answer(srv, CatchError("query-superset"), lk)
          ELSE MkStep([fn |-> "query-superset", pc |-> "executeQuery", query |-> query,
                       database |-> m.database, table |-> m.table],
                      srv, <<ServiceCall("executeQuery", <<m.database.id, sql, m.table.schema>>)>>,
                      0, NoReturn, lk)

QuerySupersetStep(srv, query, databaseId, schema, tableName) ==
  IF CacheEmpty(srv) THEN Initializing("query-superset", srv)
  ELSE LET m == SelectTable(srv, query, databaseId, schema, tableName)
           cacheKey == CacheKey(m.database.id, m.table.schema, m.table.name)
       IN IF ~m.found THEN Answer(srv, TextResult("query-superset", "no match"), NoLookup)
          ELSE IF FieldsCached(srv.fieldsCache, cacheKey)
          THEN LET fields == StoredFields(srv.fieldsCache, cacheKey)
               IN QueryWithFields(srv, query, m, fields,
                    Lookup(m.database.id, m.table.schema, m.table.name, TRUE, TRUE, fields))
          ELSE MkStep([fn |-> "query-superset", pc |-> "getTableMetadata", query |-> query,
                       database |-> m.database, table |-> m.table],
                      srv, <<ServiceCall("getTableMetadata",
                                         <<m.database.id, m.table.schema, m.table.name>>)>>,
                      0, NoReturn,
                      Lookup(m.database.id, m.table.schema, m.table.name, FALSE, FALSE, Undefined))

QueryAfterMetadata(pr, srv, r) ==
  QueryWithFields(StoreFields(srv, CacheKey(pr.database.id, pr.table.schema, pr.table.name), r),
                  pr.query, Match(pr.database, pr.table), FetchedFields(r),
                  Lookup(pr.database.id, pr.table.schema, pr.table.name, FALSE, TRUE,
                         FetchedFields(r)))

\* What executeQuery and getQueryResults can answer: a rejection, an absent
\* value (response.data of a body that is null), or a QueryResult.
QueryResult(status, id) == [present |-> TRUE, status |-> status, query_id |-> id]
AbsentResult == [present |-> FALSE, status |-> "none", query_id |-> 0]
ExecuteResults ==
  {Rejected} \cup {Resolved(v) : v \in {AbsentResult, QueryResult("success", 0),
                                         QueryResult("running", 7), QueryResult("failed", 0)}}
ResultsResults == {Rejected, Resolved(AbsentResult), Resolved(QueryResult("success", 7))}

\* const queryResult = await supersetApi.executeQuery(queryRequest); ...
QueryAfterExecute(pr, srv, r) ==
  IF ~r.ok \/ ~r.value.present
  THEN Answer(srv, CatchError("query-superset"), NoLookup)
  ELSE IF r.value.status = "success"
  THEN Answer(srv, TextResult("query-superset", "result"), NoLookup)
  ELSE IF r.value.status = "running" /\ r.value.query_id # 0
  THEN MkStep([pr EXCEPT !.pc = "getQueryResults"], srv,
              <<ServiceCall("getQueryResults", <<r.value.query_id>>)>>, 0, NoReturn, NoLookup)
  ELSE Answer(srv, TextResult("query-superset", "query failed"), NoLookup)

\* const results = await supersetApi.getQueryResults(queryResult.query_id); results.data
QueryAfterResults(pr, srv, r) ==
  IF ~r.ok \/ ~r.value.present
  THEN Answer(srv, CatchError("query-superset"), NoLookup)
  ELSE Answer(srv, TextResult("query-superset", "result"), NoLookup)

\* ------------------------------------------------------ steps of the server
\* The arguments the tools are called with.
ToolQueries == {<<"a">>, <<"x">>}
ToolDatabaseIds == {1, 2}
FieldsDatabaseIds == {1}
ToolSchemas == {SchemaP}
ToolTables == {TableA, TableB}
OptionalDatabaseIds == {Undefined} \cup {Some(id) : id \in ToolDatabaseIds}
OptionalSchemas == {Undefined} \cup {Some(s) : s \in ToolSchemas}
OptionalTables == {Undefined, Some(TableA)}

\* history: the keys whose entry a step removes or replaces by another value
Replaced(old, new) == {x \in DOMAIN old : ~MapHas(new, x) \/ new[x] # old[x]}

ServerStep(p, fn, at, in, k) ==
  /\ proc' = [proc EXCEPT ![p] = k.proc]
  /\ databasesCache' = k.srv.databasesCache
  /\ tablesCache' = k.srv.tablesCache
  /\ fieldsCache' = k.srv.fieldsCache
  /\ started' = started + Cardinality({i \in DOMAIN k.calls : k.calls[i].name = "getDatabases"})
  /\ toolCalls' = IF at = "start" THEN toolCalls + 1 ELSE toolCalls
  /\ cev' = [proc |-> p, fn |-> fn, at |-> at, in |-> in, calls |-> k.calls,
             runs |-> k.runs, ret |-> k.ret, lookup |-> k.lookup,
             replaced |-> [tables |-> Replaced(tablesCache, k.srv.tablesCache),
                           fields |-> Replaced(fieldsCache, k.srv.fieldsCache)]]
  /\ heur' = heur
  /\ app' = app
  /\ UNCHANGED sessVars

\* The slot a new call takes: the first one that is free.
Idle(p) ==
  /\ proc[p].fn = "idle"
  /\ \A q \in Procs : q < p => proc[q].fn # "idle"
  /\ toolCalls < MaxToolCalls
At(p, fn, pc) == proc[p].fn = fn /\ proc[p].pc = pc
\* a tool call that finds the database cache empty starts a run
MayStart == CacheEmpty(Srv) => started < MaxRuns

ListDatabases(p) ==
  /\ Idle(p) /\ MayStart
  /\ ServerStep(p, "list-databases", "start", NoInput, ListDatabasesStep(Srv))

ListTables(p, databaseId, schema) ==
  /\ Idle(p) /\ MayStart
  /\ ServerStep(p, "list-tables", "start", NoInput, ListTablesStep(Srv, databaseId, schema))

ListFields(p, databaseId, schema, tableName) ==
  /\ Idle(p)
  /\ ServerStep(p, "list-fields", "start", NoInput,
                ListFieldsStep(Srv, databaseId, schema, tableName))

QuerySuperset(p, query, databaseId, schema, tableName) ==
  /\ Idle(p) /\ MayStart
  /\ ServerStep(p, "query-superset", "start", NoInput,
                QuerySupersetStep(Srv, query, databaseId, schema, tableName))

InitializeCacheAfterDatabases(p, r) ==
  /\ At(p, "initializeCache", "getDatabases")
  /\ ServerStep(p, "initializeCache", "getDatabases", r, AfterDatabases(proc[p], Srv, r))

InitializeCacheAfterSchemas(p, r) ==
  /\ At(p, "initializeCache", "getSchemas")
  /\ ServerStep(p, "initializeCache", "getSchemas", r, AfterSchemas(proc[p], Srv, r))

InitializeCacheAfterTables(p, r) ==
  /\ At(p, "initializeCache", "getTables")
  /\ r \in TablesResults(proc[p].schemas[proc[p].j])
  /\ ServerStep(p, "initializeCache", "getTables", r, AfterTables(proc[p], Srv, r))

ListFieldsAfterGetTableFields(p, r) ==
  /\ At(p, "list-fields", "getTableMetadata")
  /\ ServerStep(p, "list-fields", "getTableMetadata", r, ListFieldsAfterMetadata(proc[p], Srv, r))

QuerySupersetAfterGetTableFields(p, r) ==
  /\ At(p, "query-superset", "getTableMetadata")
  /\ ServerStep(p, "query-superset", "getTableMetadata", r, QueryAfterMetadata(proc[p], Srv, r))

QuerySupersetAfterExecuteQuery(p, r) ==
  /\ At(p, "query-superset", "executeQuery")
  /\ ServerStep(p, "query-superset", "executeQuery", r, QueryAfterExecute(proc[p], Srv, r))

QuerySupersetAfterGetQueryResults(p, r) ==
  /\ At(p, "query-superset", "getQueryResults")
  /\ ServerStep(p, "query-superset", "getQueryResults", r, QueryAfterResults(proc[p], Srv, r))

\* ------------------------------------------------ the server's specification
\* The session is left out of this specification: the service answers each
\* call with a value or a rejection.  At startup the module has called
\* initializeCache(), which awaits the database list.
SessionAtRest ==
  /\ token = Null /\ refresh = Null /\ csrf = Null /\ cookies = EmptyJar
  /\ stack = [t \in Tasks |-> <<>>]
  /\ ret = [t \in Tasks |-> NoRet]
  /\ op = [t \in Tasks |-> NoOp]
  /\ topCalls = [t \in Tasks |-> 0]
  /\ lastAuth = "none"
  /\ ev = MkEv(0, PlainFrame("init", "none"), NoIn, MkRun(<<>>), EmptySession)
  /\ logouts = 0
  /\ inFlight = [t \in Tasks |-> 0]
  /\ pinned = {}
  /\ pin = NoPin
  /\ phase = "free"
  /\ snap = [sess |-> EmptySession, ret |-> NoRet]

InitCache ==
  /\ SessionAtRest
  /\ databasesCache = <<>>
  /\ tablesCache = EmptyMap
  /\ fieldsCache = EmptyMap
  /\ proc = [p \in Procs |-> IF p = 1 THEN CallInitializeCache ELSE IdleProc]
  /\ started = 1
  /\ toolCalls = 0
  /\ cev = [NoCev EXCEPT !.proc = 1, !.fn = "startup", !.at = "start", !.runs = 1,
                         !.calls = <<ServiceCall("getDatabases", <<>>)>>]
  /\ heur = NoHeur
  /\ app = NoApp

NextCache ==
  \/ \E p \in Procs : ListDatabases(p)
  \/ \E p \in Procs, id \in ToolDatabaseIds, s \in OptionalSchemas : ListTables(p, id, s)
  \/ \E p \in Procs, id \in FieldsDatabaseIds, s \in ToolSchemas, t \in ToolTables :
       ListFields(p, id, s, t)
  \/ \E p \in Procs, q \in ToolQueries, id \in OptionalDatabaseIds,
        s \in OptionalSchemas, t \in OptionalTables : QuerySuperset(p, q, id, s, t)
  \/ \E p \in Procs, r \in DatabasesResults : InitializeCacheAfterDatabases(p, r)
  \/ \E p \in Procs, r \in SchemasResults : InitializeCacheAfterSchemas(p, r)
  \/ \E p \in Procs, r \in UNION {TablesResults(s) : s \in {SchemaP, SchemaQ}} :
       InitializeCacheAfterTables(p, r)
  \/ \E p \in Procs, r \in MetadataResults : ListFieldsAfterGetTableFields(p, r)
  \/ \E p \in Procs, r \in MetadataResults : QuerySupersetAfterGetTableFields(p, r)
  \/ \E p \in Procs, r \in ExecuteResults : QuerySupersetAfterExecuteQuery(p, r)
  \/ \E p \in Procs, r \in ResultsResults : QuerySupersetAfterGetQueryResults(p, r)

SpecCache == InitCache /\ [][NextCache]_vars

\* --------------------------------------- the heuristic applied to an input
\* findMatchingTable and generateSqlQuery are functions of the caches and of
\* their arguments: a cache state and an input are drawn, the table is
\* matched, and the statement is generated for the matched table.
HeurQueries ==
  {<<"s", "h", "o", "w", " ", "r", "e", "c", "o", "r", "d", "s", " ", "w", "h", "e", "r", "e", " ", "s", "t", "a", "t", "u", "s", " ", "a", "c", "t", "i", "v", "e", " ", "l", "i", "m", "i", "t", " ", "5">>, <<"l", "i", "s", "t", " ", "U", "S", "E", "R", "S", " ", "t", "o", "p", " ", "3">>, <<"f", "i", "l", "t", "e", "r", " ", "L", "o", "g", " ", "i", "d">>, <<>>,
   <<"l", "o", "g", " ", "t", "o", "p", " ", "3", " ", "l", "i", "m", "i", "t", " ", "5">>,
   <<"l", "o", "g", " ", "l", "i", "m", "i", "t", " ", "x", " ", "l", "i", "m", "i", "t", " ", "5">>,
   <<"l", "o", "g", " ", "t", "o", "p", " ", "0">>,
   <<"l", "i", "m", "i", "t", " ", "-", "3", " ", "t", "o", "p", " ", "2", "x">>,
   <<"U+524D", "7">>,
   <<"w", "h", "e", "r", "e", " ", "S", "T", "A", "T", "U", "S", " ", "'", "a", "\"", "b", "'", " ", "f", "i", "l", "t", "e", "r", " ", "i", "d">>,
   <<"l", "o", "g", " ", "w", "h", "e", "r", "e", " ", " ">>,
   <<"w", "h", "e", "r", "e", " ", "s", "t", "a", "t", "u", "s", " ", "L", "I", "M", "I", "T", " ", "4">>}
HeurNames == {<<"l", "o", "g">>, <<"U", "s", "e", "r", "s">>}
HeurTableLists ==
  {<<>>} \cup {<<Table(n, SchemaP)>> : n \in HeurNames}
         \cup {<<Table(n, SchemaP), Table(m, SchemaQ)>> : n, m \in HeurNames}
HeurDatabaseLists == {<<>>, <<Database(1)>>, <<Database(1), Database(2)>>, <<Database(2), Database(1)>>}
HeurFieldLists == {<<FieldId, FieldStatus>>, <<FieldStatus>>}
HeurMaps ==
  UNION {[ids -> HeurTableLists] : ids \in SUBSET {1, 2}}

InitHeuristic ==
  /\ SessionAtRest
  /\ databasesCache \in HeurDatabaseLists
  /\ tablesCache \in HeurMaps
  /\ fieldsCache = EmptyMap
  /\ proc = [p \in Procs |-> IdleProc]
  /\ started = 0
  /\ toolCalls = 0
  /\ cev = NoCev
  /\ \E q \in HeurQueries, f \in HeurFieldLists :
       heur = [NoHeur EXCEPT !.query = q, !.fields = f]
  /\ app = NoApp

ApplyFindMatchingTable ==
  /\ heur.fn = "none"
  /\ heur' = [heur EXCEPT !.fn = "findMatchingTable",
                          !.match = findMatchingTable(heur.query, databasesCache, tablesCache)]
  /\ UNCHANGED <<databasesCache, tablesCache, fieldsCache, proc, started, toolCalls, cev, app>>
  /\ UNCHANGED sessVars

ApplyGenerateSqlQuery ==
  /\ heur.fn = "findMatchingTable"
  /\ heur.match.found
  /\ heur' = [heur EXCEPT !.fn = "generateSqlQuery",
                          !.sql = generateSqlQuery(heur.query, heur.match.table, heur.fields)]
  /\ UNCHANGED <<databasesCache, tablesCache, fieldsCache, proc, started, toolCalls, cev, app>>
  /\ UNCHANGED sessVars

NextHeuristic ==
  \/ ApplyFindMatchingTable
  \/ ApplyGenerateSqlQuery

SpecHeuristic == InitHeuristic /\ [][NextHeuristic]_vars

\* ============================== the service: src/src/services/superset-api.ts
\* An operation of SupersetApiService is one top-level call: it makes one
\* call of client.get / client.post, awaits the SupersetResponse and settles
\* with a value, a boolean or a rejection.
ResultOps == {"getDatabases", "getDatabase", "getSchemas", "getTables"}
DataOps == {"getTableMetadata", "executeQuery", "getQueryResults"}
MetadataQueryOps == ResultOps \cup DataOps
ServiceOps == MetadataQueryOps \cup {"cancelQuery"}

EndpointOf(svc) ==
  CASE svc = "getDatabases" -> "databases"
    [] svc = "getDatabase" -> "database"
    [] svc = "getSchemas" -> "schemas"
    [] svc = "getTables" -> "tables"
    [] svc = "getTableMetadata" -> "tablemeta"
    [] svc = "executeQuery" -> "execute"
    [] svc = "getQueryResults" -> "results"
    [] svc = "cancelQuery" -> "cancel"

\* return response.data.result (getTables: its items mapped one by one)
ResultValue(x) == MkRet("value", TRUE, 0, "none", NoBody, FALSE, x)
\* return response.data
DataValue(d) == MkRet("value", TRUE, 0, "none", d, FALSE, Null)

\* response.data is truthy: of the bodies here, all but the JSON value null
DataPresent(d) == d.kind = "json"

\* if (!response.success || !response.data?.result) throw ...; return response.data.result
ResultOpSettles(r) ==
  IF r.tag # "resp" \/ ~r.success \/ ~Truthy(r.data.result)
  THEN ThrowRet
  ELSE ResultValue(r.data.result)

\* if (!response.success || !response.data) throw ...; return response.data
GetTableMetadataSettles(r) ==
  IF r.tag # "resp" \/ ~r.success \/ ~DataPresent(r.data) THEN ThrowRet ELSE DataValue(r.data)

\* if (!response.success) throw ...; return response.data as QueryResult
QuerySettles(r) ==
  IF r.tag # "resp" \/ ~r.success THEN ThrowRet ELSE DataValue(r.data)

\* Variant: an unsuccessful cancel response is thrown, as the other operations do.
CancelQueryThrows(r) ==
  IF r.tag = "resp" /\ r.success THEN BoolRet(TRUE) ELSE ThrowRet

\* try { ...; return response.success } catch (error) { return false }
CancelQuerySettles(r) ==
  IF r.tag = "resp" THEN BoolRet(r.success) ELSE BoolRet(FALSE)

ServiceSettles(svc, r) ==
  CASE svc \in ResultOps -> ResultOpSettles(r)
    [] svc = "getTableMetadata" -> GetTableMetadataSettles(r)
    [] svc \in {"executeQuery", "getQueryResults"} -> QuerySettles(r)
    [] svc = "cancelQuery" -> CancelQuerySettles(r)

\* The operation from its entry to its first await: this.client.get(...) or
\* this.client.post(...), i.e. request(endpoint, options) with the refresh
\* on expiry allowed.
CallService(svc) ==
  LET k1 == Entered(MkRun(<<>>), svc, EndpointOf(svc), Sess)
      k2 == [k1 EXCEPT !.st = Push(@, PlainFrame(svc, "awaitResp"))]
  IN CallRequest(k2, Sess, EndpointOf(svc), TRUE, Null, 0, FALSE)

\* executeQuery({database_id: 0, ...}) or ({..., sql: ""}): rejected at once
ExecuteQueryRefused ==
  [Entered(MkRun(<<>>), "executeQuery", "execute", Sess)
     EXCEPT !.ret = ThrowRet, !.retFn = "executeQuery"]

StartService(t, svc) ==
  /\ svc # "executeQuery"
  /\ Begin(t, [name |-> svc, ep |-> EndpointOf(svc), allow |-> TRUE], CallService(svc))
  /\ UNCHANGED <<phase, snap>>

\* getTableMetadata(1, "public", "csrf_token"): the same operation on another table
StartGetTableMetadata(t, ep) ==
  /\ LET k1 == Entered(MkRun(<<>>), "getTableMetadata", ep, Sess)
         k2 == [k1 EXCEPT !.st = Push(@, PlainFrame("getTableMetadata", "awaitResp"))]
     IN Begin(t, [name |-> "getTableMetadata", ep |-> ep, allow |-> TRUE],
              CallRequest(k2, Sess, ep, TRUE, Null, 0, FALSE))
  /\ UNCHANGED <<phase, snap>>

QueryDatabaseIds == {0, 1}
QuerySqls == {<<>>, <<"S", "E", "L", "E", "C", "T", " ", "1">>}

StartExecuteQuery(t, databaseId, sql) ==
  /\ stack[t] = <<>>
  /\ IF RequestRefused(databaseId, sql)
     THEN /\ ev' = MkEv(t, PlainFrame("start", "executeQuery"), NoIn, ExecuteQueryRefused, Sess)
          /\ UNCHANGED <<token, refresh, csrf, cookies, stack, ret, op, topCalls, lastAuth,
                         pinned, pin, logouts, inFlight>>
          /\ UNCHANGED cacheVars
     ELSE Begin(t, [name |-> "executeQuery", ep |-> "execute", allow |-> TRUE],
                CallService("executeQuery"))
  /\ UNCHANGED <<phase, snap>>

\* const response = await this.client.get(...) / post(...) settles.  The
\* frame of the history is the operation's with its `response` filled in.
ServiceAfterResponse(t) ==
  /\ stack[t] # <<>>
  /\ Top(stack[t]).fn \in ServiceOps
  /\ Top(stack[t]).pc = "awaitResp"
  /\ LET f == Top(stack[t])
         r == ret[t]
         k == Returned(MkRun(stack[t]), f.fn, ServiceSettles(f.fn, r))
         resumed == [f EXCEPT !.status = r.status, !.data = r.data]
     IN /\ Commit(t, k, MkEv(t, resumed, InRet(r), k, Sess))
        /\ UNCHANGED <<token, refresh, csrf, cookies, lastAuth, pin>>

\* The service object after construction (its client's constructor has
\* called login()), its operations called one after another.
NextService ==
  \/ \E t \in Tasks, svc \in ServiceOps : StartService(t, svc)
  \/ \E t \in Tasks, databaseId \in QueryDatabaseIds, sql \in QuerySqls :
       StartExecuteQuery(t, databaseId, sql)
  \/ \E t \in Tasks : StartGetTableMetadata(t, "tokenmeta")
  \/ \E t \in Tasks : ServiceAfterResponse(t)
  \/ Logout
  \/ \E t \in Tasks, h \in Heads : RequestFetchSettles(t, h)
  \/ \E t \in Tasks, b \in Bodies : RequestBodySettles(t, b)
  \/ \E t \in Tasks : RequestAfterLogin(t)
  \/ \E t \in Tasks : RequestAfterRefresh(t)
  \/ \E t \in Tasks : LoginAfterResponse(t)
  \/ \E t \in Tasks : LoginAfterCsrf(t)
  \/ \E t \in Tasks : RefreshAfterResponse(t)
  \/ \E t \in Tasks : GetCsrfTokenAfterResponse(t)

SpecService == Init /\ [][NextService]_vars

\* ------------------------------------- the shapes the service takes and gives
\* The values that pass through the operations are JavaScript objects: an
\* object is the function from the names of its fields to their values, and
\* a field that is not in the domain is undefined.
\* { ...a, ...b }: the fields of both, those of b over those of a
Spread(a, b) ==
  [f \in DOMAIN a \cup DOMAIN b |-> IF f \in DOMAIN b THEN b[f] ELSE a[f]]
\* the objects of S, and each of them with the field f set to a value of V
WithField(S, f, V) == S \cup {Spread(o, [x \in {f} |-> v]) : o \in S, v \in V}
\* o[f] || ''  (f holds a string, or is undefined)
OrEmpty(o, f) == IF f \in DOMAIN o THEN o[f] ELSE ""
\* the sequences over S of at most two elements
UpToTwo(S) == {<<>>} \cup {<<x>> : x \in S} \cup {<<x, y>> : x \in S, y \in S}

\* A SupersetResponse as the operations read it: success, and data, which is
\* null or an object that may hold a result list.
NullData == [isNull |-> TRUE]
ObjectData(o) == [isNull |-> FALSE, obj |-> o]
NoResult == [message |-> "OK"]
ListResult(l) == [result |-> l]
\* response.data?.result is truthy
HasResult(response) == ~response.data.isNull /\ "result" \in DOMAIN response.data.obj

Thrown == [threw |-> TRUE]
Value(v) == [threw |-> FALSE, value |-> v]

\* Variant: only the typed fields of Database are kept.
ReturnTyped(result) ==
  [i \in 1..Len(result) |-> [id |-> result[i].id, database_name |-> result[i].database_name]]

\* return response.data.result
ReturnResult(result) == result

\* getDatabases(): the operation after its response
GetDatabasesOf(response) ==
  IF ~response.success \/ ~HasResult(response) THEN Thrown
  ELSE Value(ReturnResult(response.data.obj.result))

\* ({ name: item.value || '', schema: schemaName, catalog: item.catalog || '',
\*    description: item.description || '', ...item })
TableOf(item, schemaName) ==
  Spread([name |-> OrEmpty(item, "value"), schema |-> schemaName,
          catalog |-> OrEmpty(item, "catalog"), description |-> OrEmpty(item, "description")],
         item)

\* getTables(databaseId, schemaName): the operation after its response
GetTablesOf(response, schemaName) ==
  IF response.success /\ HasResult(response)
  THEN Value([i \in 1..Len(response.data.obj.result) |->
                TableOf(response.data.obj.result[i], schemaName)])
  ELSE Thrown

\* `client_${Date.now()}`, `editor_${Date.now()}`
GeneratedClientId == "client_<now>"
GeneratedEditorId == "editor_<now>"
\* request.f || generated  (f holds a string, or is undefined)
OrGenerated(request, f, generated) ==
  IF f \in DOMAIN request /\ request[f] # "" THEN request[f] ELSE generated

\* const queryRequest = { ...request, client_id: ..., sql_editor_id: ...,
\*   runAsync: request.runAsync !== undefined ? request.runAsync : false, json: true }
QueryRequestOf(request) ==
  Spread(request,
         [client_id |-> OrGenerated(request, "client_id", GeneratedClientId),
          sql_editor_id |-> OrGenerated(request, "sql_editor_id", GeneratedEditorId),
          runAsync |-> IF "runAsync" \in DOMAIN request THEN request.runAsync ELSE FALSE,
          json |-> TRUE])

\* The inputs: the responses of the two list operations, and the requests
\* executeQuery is called with.
DatabaseA == [id |-> 1, database_name |-> "examples", backend |-> "postgresql"]
DatabaseB == [id |-> 2, database_name |-> "logs"]
TableItems ==
  WithField(WithField(WithField(WithField({[type |-> "table"]},
    "value", {"", "t1"}), "name", {"n1"}), "catalog", {"c1"}), "schema", {"other"})
ResponsesOf(lists) ==
  {[success |-> su, data |-> d] :
     su \in BOOLEAN, d \in {NullData, ObjectData(NoResult)} \cup {ObjectData(ListResult(l)) : l \in lists}}
QueryRequests ==
  WithField(WithField(WithField(WithField({[database_id |-> 1, sql |-> "SELECT 1"]},
    "client_id", {"", "c1"}), "sql_editor_id", {"e1"}), "runAsync", BOOLEAN), "json", BOOLEAN)
SchemaName == "public"
\* the (databaseId, schema, tableName) triples getTableFields is called with
KeyTriples ==
  {<<id, sc, tb>> : id \in {1, 2}, sc \in {<<"a">>, <<"a", ":", "b">>},
                    tb \in {<<"c">>, <<"b", ":", "c">>}}
\* the column list the remote holds for a table: one column, named after it
ColumnsOfTable(tr) == <<Field(tr[2] \o <<".">> \o tr[3])>>

\* getTableFields(second) after getTableFields(first) on an empty field
\* cache, the remote answering both: the list returned by the second call
GetTableFieldsAfter(first, second) ==
  LET srv0 == [databasesCache |-> <<>>, tablesCache |-> EmptyMap, fieldsCache |-> EmptyMap]
      srv1 == StoreFields(srv0, CacheKey(first[1], first[2], first[3]),
                          Resolved([columns |-> Some(ColumnsOfTable(first))]))
      key == CacheKey(second[1], second[2], second[3])
  IN IF FieldsCached(srv1.fieldsCache, key)
     THEN [hit |-> TRUE, fields |-> StoredFields(srv1.fieldsCache, key)]
     ELSE [hit |-> FALSE,
           fields |-> FetchedFields(Resolved([columns |-> Some(ColumnsOfTable(second))]))]

InitShape ==
  /\ SessionAtRest
  /\ databasesCache = <<>>
  /\ tablesCache = EmptyMap
  /\ fieldsCache = EmptyMap
  /\ proc = [p \in Procs |-> IdleProc]
  /\ started = 0
  /\ toolCalls = 0
  /\ cev = NoCev
  /\ heur = NoHeur
  /\ \/ \E r \in ResponsesOf(UpToTwo({DatabaseA, DatabaseB})) :
          app = [NoApp EXCEPT !.of = "getDatabases", !.in = r]
     \/ \E r \in ResponsesOf(UpToTwo(TableItems)) :
          app = [NoApp EXCEPT !.of = "getTables", !.in = r]
     \/ \E q \in QueryRequests :
          app = [NoApp EXCEPT !.of = "executeQuery", !.in = q]
     \/ \E first \in KeyTriples, second \in KeyTriples :
          app = [NoApp EXCEPT !.of = "getTableFields", !.in = <<first, second>>]

Apply(of, out) ==
  /\ app.fn = "none"
  /\ app' = [app EXCEPT !.fn = of, !.out = out]
  /\ UNCHANGED <<databasesCache, tablesCache, fieldsCache, proc, started, toolCalls, cev, heur>>
  /\ UNCHANGED sessVars

ApplyGetDatabases ==
  /\ app.of = "getDatabases"
  /\ Apply("getDatabases", GetDatabasesOf(app.in))

ApplyGetTables ==
  /\ app.of = "getTables"
  /\ Apply("getTables", GetTablesOf(app.in, SchemaName))

ApplyExecuteQuery ==
  /\ app.of = "executeQuery"
  /\ Apply("executeQuery", QueryRequestOf(app.in))

ApplyGetTableFields ==
  /\ app.of = "getTableFields"
  /\ Apply("getTableFields", GetTableFieldsAfter(app.in[1], app.in[2]))

NextShape ==
  \/ ApplyGetTableFields
  \/ ApplyGetDatabases
  \/ ApplyGetTables
  \/ ApplyExecuteQuery

SpecShape == InitShape /\ [][NextShape]_vars

\* ================================================================ claims
RequestFrames(t) == {i \in 1..Len(stack[t]) : stack[t][i].fn = "request"}
CallsOf(fn) == {i \in 1..Len(ev.calls) : ev.calls[i].fn = fn}

\* The request() the last step resumed settled its await on refreshAccessToken() with true.
RefreshedForRetry ==
  /\ ev.frame.fn = "request" /\ ev.frame.pc = "awaitRefresh"
  /\ ev.in.kind = "bool" /\ ev.in.b

\* One retry with refresh disabled, and at most two transport calls by the
\* request itself (its first attempt and that retry).
C1_OneRetry ==
  /\ \A t \in Tasks : \A i \in RequestFrames(t) :
       LET f == stack[t][i]
       IN /\ f.sent <= 2
          /\ f.retry => ~f.allow
          /\ f.pc = "awaitRefresh" => (f.allow /\ ~f.retry /\ f.sent = 1)
          /\ (f.retry /\ f.pc \in {"fetch", "body"}) => f.sent = 2
  /\ RefreshedForRetry =>
       /\ ev.calls # <<>>
       /\ ev.calls[1] = [fn |-> "request", ep |-> ev.frame.ep,
                         authed |-> IsAuthenticated(token), hasRefresh |-> Truthy(refresh)]
       /\ \E i \in RequestFrames(ev.task) :
            LET f == stack[ev.task][i]
            IN f.retry /\ ~f.allow /\ f.ep = ev.frame.ep

\* C1 (as stated): for every call of request() made with refresh allowed, a
\* 401 'Token has expired' response followed by a successful refresh re-issues
\* the request exactly once with refresh disabled, and the requested endpoint
\* receives at most two transport calls for one top-level call.
C1_AtMostTwoCallsToEndpoint ==
  /\ C1_OneRetry
  /\ \A t \in Tasks : op[t].allow => topCalls[t] <= 2

\* C1 (amended): the retry is issued exactly once with refresh disabled and
\* the request itself issues at most two transport calls; the requested
\* endpoint receives at most two transport calls for one top-level call when
\* it is not the CSRF endpoint, to which an inline login sends calls of its own.
C1_RetryOnceAtMostTwoCalls ==
  /\ C1_OneRetry
  /\ \A t \in Tasks : (op[t].allow /\ op[t].ep # "csrf") => topCalls[t] <= 2

\* The retried request was answered 401 'Token has expired' again and returned that failure.
C1_Witness ==
  /\ ev.frame.fn = "request" /\ ev.frame.pc = "body" /\ ev.frame.retry
  /\ ev.frame.status = 401 /\ ev.in.msg = Expired
  /\ ev.retFn = "request" /\ ev.retVal.status = 401
  /\ ev.frame.ep \in DataEndpoints

\* The last step resumed a request() whose fetch() or body read rejected.
TransportRaised ==
  /\ ev.frame.fn = "request" /\ ev.frame.pc \in {"fetch", "body"}
  /\ ev.in.kind = "throw"

\* C2: when the transport call of request() raises, request() returns
\* success=false, status 0 with the stringified error, raises nothing itself
\* and issues no further transport call.
C2_TransportErrorReturnsStatus0 ==
  TransportRaised =>
    /\ ev.retFn = "request"
    /\ ev.retVal.tag = "resp"
    /\ ~ev.retVal.success
    /\ ev.retVal.status = 0
    /\ ev.retVal.error = "String(error)"
    /\ ev.issued = NoFetch
    /\ ev.calls = <<>>
    /\ \A i \in RequestFrames(ev.task) : stack[ev.task][i].pc \notin {"fetch", "body"}

C2_Witness ==
  /\ TransportRaised
  /\ ev.frame.pc = "fetch" /\ ev.frame.ep \in DataEndpoints /\ ev.frame.allow

\* C3: isAuthenticated() is true iff the access token was last set by a
\* successful login or refresh and not cleared by logout since.
C3_AuthenticatedIffTokenSet == IsAuthenticated(token) <=> lastAuth = "set"

\* A refresh has just succeeded after a logout had cleared the session.
C3_Witness ==
  /\ ev.frame.fn = "refreshAccessToken" /\ ev.retVal.b
  /\ logouts > 0 /\ lastAuth = "set" /\ IsAuthenticated(token)

\* C4: a request whose path is not the login path, issued while no access
\* token is held, attempts a login before anything else; if that login fails
\* it returns the synthesized failure with status 401 and no transport call
\* reaches the requested endpoint.
C4_InlineLoginFirst ==
  /\ \A i \in CallsOf("request") :
       (PathOf(ev.calls[i].ep) # LoginPath /\ ~ev.calls[i].authed) =>
         /\ i < Len(ev.calls)
         /\ ev.calls[i + 1].fn = "login"
         /\ ev.issued.ep = "login"
  /\ (ev.frame.fn = "request" /\ ev.frame.pc = "awaitLogin" /\ ev.in.kind = "bool" /\ ~ev.in.b) =>
       /\ ev.retFn = "request"
       /\ ~ev.retVal.success /\ ev.retVal.status = 401
       /\ ev.issued = NoFetch

\* C5: the refresh request of refreshAccessToken() carries the stored
\* refresh token as its bearer value, not the access token.
C5_RefreshBearerIsRefreshToken ==
  (ev.issued.ep = "refresh" /\ ev.issued.by = "refreshAccessToken") =>
    /\ ev.issued.bearer = ev.pre.refresh
    /\ ev.issued.bearer # ev.pre.token

\* refreshAccessToken() was entered in the last step while no refresh token was held.
RefreshWithoutToken ==
  \E i \in CallsOf("refreshAccessToken") : ~ev.calls[i].hasRefresh

\* C6: with no refresh token held, refreshAccessToken() reports failure,
\* issues no transport call and leaves the session unchanged.
C6_NoRefreshTokenNoCall ==
  RefreshWithoutToken =>
    /\ ev.retFn = "refreshAccessToken"
    /\ ev.retVal = BoolRet(FALSE)
    /\ ev.issued = NoFetch
    /\ Len(ev.calls) = 1
    /\ Sess = ev.pre

\* ... while an access token, a CSRF token and cookies were held
C6_Witness ==
  /\ RefreshWithoutToken
  /\ Truthy(token) /\ Truthy(csrf) /\ cookies # EmptyJar

\* C7: login() never throws and returns a boolean; it returns false whenever
\* the login response is unsuccessful or carries no access token.
C7_LoginReturnsBoolean ==
  /\ ev.retFn = "login" => ev.retVal.tag = "bool"
  /\ (ev.frame.fn = "login" /\ ev.frame.pc = "awaitResp"
        /\ ~(ev.in.kind = "resp" /\ ev.in.success /\ Truthy(ev.in.access_token))) =>
       /\ ev.retFn = "login"
       /\ ev.retVal = BoolRet(FALSE)
  /\ \A t \in Tasks : ret[t].tag # "throw"

\* login() returned false on a 2xx response without an access token
C7_Witness ==
  /\ ev.frame.fn = "login" /\ ev.frame.pc = "awaitResp"
  /\ ev.in.success /\ ~Truthy(ev.in.access_token)
  /\ ev.retFn = "login" /\ ~ev.retVal.b

LoginResponseOk ==
  /\ ev.frame.fn = "login" /\ ev.frame.pc = "awaitResp"
  /\ ev.in.kind = "resp" /\ ev.in.success /\ Truthy(ev.in.access_token)

\* C8: on a successful login response the tokens are stored first, then the
\* CSRF fetch is issued, carrying the token just stored; login() returns only
\* after that fetch has settled.
C8_TokensStoredBeforeCsrfFetch ==
  /\ LoginResponseOk =>
       /\ token = ev.in.access_token
       /\ refresh = ev.in.refresh_token
       /\ ev.issued.ep = "csrf" /\ ev.issued.by = "getCsrfToken"
       /\ ev.issued.bearer = ev.in.access_token
       /\ ev.retFn = "none"
       /\ \E i \in 1..Len(stack[ev.task]) :
            stack[ev.task][i].fn = "login" /\ stack[ev.task][i].pc = "awaitCsrf"
  /\ (ev.retFn = "login" /\ ev.retVal.b) =>
       (ev.frame.fn = "login" /\ ev.frame.pc = "awaitCsrf" /\ ev.in.kind = "str")

\* the login replaced an older access token, and the CSRF fetch carries the new one
C8_Witness ==
  /\ LoginResponseOk
  /\ Truthy(ev.pre.token) /\ ev.pre.token # ev.in.access_token
  /\ ev.issued.bearer = token

\* C9: logout() empties access token, refresh token, CSRF token and cookie
\* jar and issues no transport call; isAuthenticated() is false right after.
C9_LogoutClearsSession ==
  ev.frame.fn = "logout" =>
    /\ token = Null /\ refresh = Null /\ csrf = Null /\ cookies = EmptyJar
    /\ ev.issued = NoFetch /\ ev.calls = <<>>
    /\ ~IsAuthenticated(token)

\* logout() ran on a fully populated session
C9_Witness ==
  /\ ev.frame.fn = "logout"
  /\ Truthy(ev.pre.token) /\ Truthy(ev.pre.refresh) /\ Truthy(ev.pre.csrf)
  /\ ev.pre.cookies # EmptyJar

\* Both calls of the twice-in-sequence scenario have settled.
TwiceDone == phase = "second" /\ stack[1] = <<>>
SameAsOnce == Sess = snap.sess /\ ev.retVal = snap.ret

\* C10 (as stated): against a remote that answers the CSRF endpoint
\* identically, calling getCsrfToken() twice in sequence leaves the same
\* session state and returns the same value as calling it once.
C10_IdempotentCsrfPinned == TwiceDone => SameAsOnce

\* C10 (amended): the same, against a remote that answers the CSRF, login
\* and refresh endpoints identically.
C10_IdempotentRemotePinned == (TwiceDone /\ pinned = AuthEndpoints) => SameAsOnce

\* Both calls fetched a CSRF token and cookies, starting from a fresh session
C10_Witness ==
  /\ TwiceDone /\ pinned = AuthEndpoints
  /\ Truthy(ev.retVal.s) /\ ev.retVal.s = csrf /\ cookies # EmptyJar
  /\ Truthy(pin["login"].body.access_token)

\* ------------------------------------------------------------------ C11
GetDatabasesCalls(calls) == {i \in DOMAIN calls : calls[i].name = "getDatabases"}
MetadataCalls(calls) == {i \in DOMAIN calls : calls[i].name = "getTableMetadata"}
\* the step begins a getTableFields call
LookupBegins(e) == e.at = "start" /\ Len(e.lookup.key) = 3
KeyOf(e) == CacheKey(e.lookup.key[1], e.lookup.key[2], e.lookup.key[3])

\* C11: a getTableFields call that begins when the field cache holds a
\* column list for its key returns that list in the same step and makes no
\* getTableMetadata call.  (An entry that holds undefined, stored from a
\* metadata answer without columns, is not a column list: the call then
\* returns [].)
C11_MemoizedLookupNoRemoteCall ==
  [][(LookupBegins(cev') /\ MapHas(fieldsCache, KeyOf(cev')) /\ fieldsCache[KeyOf(cev')].defined)
       => /\ cev'.lookup.returned
          /\ cev'.lookup.value = fieldsCache[KeyOf(cev')]
          /\ MetadataCalls(cev'.calls) = {}
          /\ fieldsCache' = fieldsCache
          /\ (proc'[cev'.proc].fn = "idle" \/ proc'[cev'.proc].pc # "getTableMetadata")]_vars

\* A second lookup of a key returns the non-empty list the first one stored.
C11_Witness ==
  /\ LookupBegins(cev)
  /\ cev.lookup.hit
  /\ cev.lookup.value.defined
  /\ cev.lookup.value.v # <<>>
  /\ toolCalls = 2

\* ------------------------------------------------------------------ C12
TableEntriesKept ==
  \A id \in DOMAIN tablesCache : id \in DOMAIN tablesCache' /\ tablesCache'[id] = tablesCache[id]
FieldEntriesKept ==
  \A k \in DOMAIN fieldsCache : k \in DOMAIN fieldsCache' /\ fieldsCache'[k] = fieldsCache[k]

\* C12 as claimed: once a cache holds an entry, no step removes it or
\* replaces it with a different list.
C12_EntriesNeverChange == [][TableEntriesKept /\ FieldEntriesKept]_vars

\* C12 as amended: no step removes an entry.  A table-cache entry is
\* replaced only by the tablesCache.set of an initializeCache run that has
\* fetched the tables of all schemas of that database; a field-cache entry
\* only by a getTableFields call for that key that missed the cache, when its
\* metadata call resolves.  A lookup that finds the key changes nothing.
C12_EntriesKeptOrRefetched ==
  [][/\ DOMAIN tablesCache \subseteq DOMAIN tablesCache'
     /\ DOMAIN fieldsCache \subseteq DOMAIN fieldsCache'
     /\ ~TableEntriesKept =>
          /\ cev'.fn = "initializeCache" /\ cev'.at = "getTables" /\ cev'.in.ok
          /\ proc[cev'.proc].j = Len(proc[cev'.proc].schemas)
          /\ \A id \in DOMAIN tablesCache :
               tablesCache'[id] # tablesCache[id] =>
                 /\ id = proc[cev'.proc].dbs[proc[cev'.proc].i].id
                 /\ tablesCache'[id] = proc[cev'.proc].tables \o cev'.in.value
     /\ ~FieldEntriesKept =>
          /\ cev'.at = "getTableMetadata" /\ cev'.in.ok
          /\ ~cev'.lookup.hit
          /\ \A k \in DOMAIN fieldsCache :
               fieldsCache'[k] # fieldsCache[k] =>
                 k = KeyOf(cev') /\ fieldsCache'[k] = cev'.in.value.columns]_vars

\* An entry has been replaced by a different list: the last step stored
\* columns under a key that held other columns.
C12_Witness ==
  /\ cev.at = "getTableMetadata"
  /\ cev.in.ok
  /\ cev.replaced.fields = {KeyOf(cev)}
  /\ fieldsCache[KeyOf(cev)] = Some(<<FieldId>>)

\* ------------------------------------------------------------------ C13
ToolsThatInitialize == {"query-superset", "list-databases", "list-tables"}

\* C13 as claimed: at most one getDatabases call in the process lifetime.
C13_AtMostOneListDatabasesCall == started <= 1

\* C13 as amended: the database list is fetched once by each run of
\* initializeCache, when the run starts, and a run is started only at
\* startup or by a query-superset, list-databases or list-tables call that
\* finds the database cache empty; each such call starts its own run.
C13_OneListDatabasesCallPerRun ==
  [][LET n == Cardinality(GetDatabasesCalls(cev'.calls))
     IN /\ n = cev'.runs
        /\ n <= 1
        /\ started' = started + n
        /\ n = 1 => /\ cev'.fn \in ToolsThatInitialize
                    /\ cev'.at = "start"
                    /\ Len(databasesCache) = 0
                    /\ proc'[cev'.proc] = CallInitializeCache]_vars

\* A tool call has started a run, which makes the second getDatabases call.
C13_Witness ==
  /\ started = 2
  /\ cev.runs = 1
  /\ cev.fn \in ToolsThatInitialize

\* ------------------------------------------------------------------ C14
InitializingAtOnce(tool) ==
  /\ cev'.runs = 1
  /\ cev'.ret = TextResult(tool, "initializing")
  /\ proc'[cev'.proc] = CallInitializeCache
  /\ \A p \in Procs \ {cev'.proc} : proc'[p] = proc[p]

\* C14 as claimed: every tool call that runs while the database cache is
\* empty starts a run of initializeCache and returns the 'initializing' text.
C14_EveryToolStartsRun ==
  [][(cev'.at = "start" /\ Len(databasesCache) = 0) => InitializingAtOnce(cev'.fn)]_vars

\* C14 as amended: every query-superset, list-databases and list-tables call
\* that runs while the database cache is empty starts a new run of
\* initializeCache without waiting for it and returns the 'initializing'
\* text in the same step, whatever runs are in flight; list-fields does not
\* look at the database cache and starts no run.
C14_ThreeToolsStartRun ==
  [][/\ (cev'.at = "start" /\ cev'.fn \in ToolsThatInitialize /\ Len(databasesCache) = 0)
          => InitializingAtOnce(cev'.fn)
     /\ (cev'.at = "start" /\ cev'.fn = "list-fields")
          => cev'.runs = 0 /\ cev'.ret.kind # "initializing"]_vars

\* A tool call has started a run while the startup run is still in flight.
C14_Witness ==
  /\ cev.at = "start"
  /\ cev.runs = 1
  /\ cev.proc = 2
  /\ proc[1].fn = "initializeCache"
  /\ proc[2] = CallInitializeCache

\* ------------------------------------------------------------------ C15
FetchFailed(e) ==
  e.fn = "initializeCache" /\ e.at \in {"getSchemas", "getTables"} /\ ~e.in.ok

\* C15: when getSchemas or getTables fails for a database, the run caches
\* nothing for it (the table cache is as before the step), goes on to the
\* next database of its list with a getSchemas call if there is one, and
\* otherwise ends normally; initializeCache never ends by throwing.
C15_FailureSkipsDatabase ==
  [][/\ FetchFailed(cev') =>
          LET pr == proc[cev'.proc]
          IN /\ tablesCache' = tablesCache
             /\ databasesCache' = databasesCache
             /\ IF pr.i < Len(pr.dbs)
                THEN /\ proc'[cev'.proc].fn = "initializeCache"
                     /\ proc'[cev'.proc].pc = "getSchemas"
                     /\ proc'[cev'.proc].i = pr.i + 1
                     /\ proc'[cev'.proc].dbs = pr.dbs
                     /\ cev'.calls = <<ServiceCall("getSchemas", <<pr.dbs[pr.i + 1].id>>)>>
                     /\ cev'.ret = NoReturn
                ELSE /\ proc'[cev'.proc] = IdleProc
                     /\ cev'.ret = InitializeCacheDone
     /\ cev'.ret.fn = "initializeCache" => cev'.ret.kind = "done"]_vars

\* The table fetch of the second schema of the first database has failed
\* and the run has gone on to the second database.
C15_Witness ==
  /\ FetchFailed(cev)
  /\ cev.at = "getTables"
  /\ proc[cev.proc].fn = "initializeCache"
  /\ proc[cev.proc].pc = "getSchemas"
  /\ proc[cev.proc].i = 2
  /\ ~MapHas(tablesCache, 1)

\* ------------------------------------------------------------------ C16
\* name occurs in query, letter case ignored
OccursIgnoringCase(name, query) ==
  \E at \in 0..(Len(query) - Len(name)) :
    \A i \in 1..Len(name) : LowerOf(query[at + i]) = LowerOf(name[i])

TableIndexes ==
  UNION {1..Len(TablesOf(tablesCache, databasesCache[i].id)) : i \in 1..Len(databasesCache)}
\* the places <<i, j>> of the cached tables whose name occurs in the query
MatchingPlaces(query) ==
  {pl \in (1..Len(databasesCache)) \X TableIndexes :
     /\ pl[2] <= Len(TablesOf(tablesCache, databasesCache[pl[1]].id))
     /\ OccursIgnoringCase(TablesOf(tablesCache, databasesCache[pl[1]].id)[pl[2]].name, query)}
Before(a, b) == a[1] < b[1] \/ (a[1] = b[1] /\ a[2] < b[2])

\* C16: when some cached table's name occurs in the input, letter case
\* ignored, findMatchingTable returns the first such table in database-list
\* order and, within a database, table-list order, with its database.
C16_FirstMatchInScanOrder ==
  (heur.fn # "none" /\ MatchingPlaces(heur.query) # {})
    => \E pl \in MatchingPlaces(heur.query) :
         /\ \A other \in MatchingPlaces(heur.query) : other = pl \/ Before(pl, other)
         /\ heur.match = Match(databasesCache[pl[1]],
                               TablesOf(tablesCache, databasesCache[pl[1]].id)[pl[2]])

\* The match is not the first table of the first database, and its name is
\* spelled in another case than in the input.
C16_Witness ==
  /\ heur.fn = "findMatchingTable"
  /\ heur.match.found
  /\ Len(databasesCache) = 2
  /\ Len(TablesOf(tablesCache, databasesCache[2].id)) = 2
  /\ heur.match.database = databasesCache[2]
  /\ heur.match.table = tablesCache[databasesCache[2].id][2]
  /\ ~Includes(heur.query, heur.match.table.name)

\* ------------------------------------------------------------------ C17
NoTableAnywhere ==
  \A i \in 1..Len(databasesCache) : TablesOf(tablesCache, databasesCache[i].id) = <<>>
FirstDatabaseHasTable ==
  Len(databasesCache) > 0 /\ TablesOf(tablesCache, databasesCache[1].id) # <<>>

\* C17 as claimed: without a matching name the result is the first table of
\* the first database, and there is no result only if no cached database
\* has a cached table.
C17_NoMatchOnlyIfCacheEmpty ==
  (heur.fn # "none" /\ ~heur.match.found) => NoTableAnywhere

\* C17 as amended: when no table name occurs in the input, findMatchingTable
\* returns the first table of the first database of the list if that
\* database has a cached table, and no match otherwise, also when a later
\* database has tables; it returns no match in no other case.
C17_FallbackFirstDatabaseOnly ==
  heur.fn # "none" =>
    /\ (MatchingPlaces(heur.query) = {} /\ FirstDatabaseHasTable)
         => heur.match = Match(databasesCache[1], tablesCache[databasesCache[1].id][1])
    /\ ~heur.match.found <=> (MatchingPlaces(heur.query) = {} /\ ~FirstDatabaseHasTable)

\* No match although the second database has a table.
C17_Witness ==
  /\ heur.fn = "findMatchingTable"
  /\ ~heur.match.found
  /\ Len(databasesCache) = 2
  /\ TablesOf(tablesCache, databasesCache[2].id) # <<>>

\* ------------------------------------------------------------------ C18
Query18 == <<"s", "h", "o", "w", " ", "r", "e", "c", "o", "r", "d", "s", " ", "w", "h", "e", "r", "e", " ", "s", "t", "a", "t", "u", "s", " ", "a", "c", "t", "i", "v", "e", " ", "l", "i", "m", "i", "t", " ", "5">>
Fields18 == <<FieldId, FieldStatus>>
Applied18 == heur.fn = "generateSqlQuery" /\ heur.query = Query18 /\ heur.fields = Fields18
Statement18(pattern) ==
  <<"S", "E", "L", "E", "C", "T", " ", "\"", "i", "d", "\"", ",", " ", "\"", "s", "t", "a", "t", "u", "s", "\"", " ", "F", "R", "O", "M", " ">> \o Quoted(heur.match.table.schema) \o <<".">> \o Quoted(heur.match.table.name)
  \o <<" ", "W", "H", "E", "R", "E", " ", "\"", "s", "t", "a", "t", "u", "s", "\"", " ", "L", "I", "K", "E", " ", "'", "%">> \o pattern \o <<"%", "'", " ", "L", "I", "M", "I", "T", " ", "5">>

\* C18 as claimed: the LIKE pattern is '%active limit 5%'.
C18_PatternAfterFieldName == Applied18 => heur.sql = Statement18(<<"a", "c", "t", "i", "v", "e", " ", "l", "i", "m", "i", "t", " ", "5">>)

\* C18 as amended: "show records where status active limit 5" with fields
\* id, status yields SELECT "id", "status" FROM "<schema>"."<table>"
\* WHERE "status" LIKE '%status active limit 5%' LIMIT 5: the pattern is the
\* whole text after the keyword, the field name included.
C18_PatternIsTrailingText == Applied18 => heur.sql = Statement18(<<"s", "t", "a", "t", "u", "s", " ", "a", "c", "t", "i", "v", "e", " ", "l", "i", "m", "i", "t", " ", "5">>)

C18_Witness == Applied18 /\ heur.match.table.name = <<"U", "s", "e", "r", "s">>

\* C19: whenever cancelQuery settles, it settles with a boolean and never
\* with a rejection, whatever its request settled with (a successful
\* response, a non-2xx response, the synthesized 401 of a failed login, the
\* status-0 result of a transport failure), and the boolean is true only if
\* the response was successful.
C19_CancelQueryReturnsBoolean ==
  ev.retFn = "cancelQuery" =>
    /\ ev.retVal.tag = "bool"
    /\ ev.retVal.b <=> (ev.in.kind = "resp" /\ ev.in.success /\ ResponseOk(ev.frame.status))

\* cancelQuery has returned false after the transport call of its request failed
C19_Witness ==
  /\ ev.retFn = "cancelQuery"
  /\ ev.frame.fn = "cancelQuery"
  /\ ev.in.kind = "resp"
  /\ ev.frame.status = 0
  /\ ev.retVal = BoolRet(FALSE)

\* the field an operation expects in the response is absent
ExpectedFieldAbsent(svc, d) == IF svc \in ResultOps THEN d.result = Null ELSE d.kind # "json"
\* the value an operation returned is absent (null or undefined)
AbsentValue(svc, v) == IF svc \in ResultOps THEN v.s = Null ELSE v.data.kind # "json"

\* C20: whenever one of the seven metadata/query operations settles, it
\* settles with a rejection if the response was unsuccessful or its expected
\* result/data field absent, and it never settles with an absent value.
C20_OperationsValidateEnvelope ==
  ev.retFn \in MetadataQueryOps =>
    /\ (~(ev.in.kind = "resp" /\ ev.in.success) \/ ExpectedFieldAbsent(ev.retFn, ev.frame.data))
         => ev.retVal.tag = "throw"
    /\ ev.retVal.tag = "value" => ~AbsentValue(ev.retFn, ev.retVal)

\* ------------------------------------------------------------------ C21
ToolNames == {"query-superset", "list-databases", "list-tables", "list-fields"}
\* the texts the handlers return
TextKinds == {"initializing", "databases", "no database", "no tables", "tables", "fields",
              "no fields", "no match", "result", "query failed", "error"}
\* the last step was of a tool handler, and the handler has returned in it
HandlerSettled == cev.fn \in ToolNames /\ proc[cev.proc].fn # cev.fn

\* C21: whenever a tool handler settles, after whatever its service calls
\* settled with (a rejection, an absent value, an undefined column list) and
\* whatever the caches hold, it settles with a text content result; it never
\* settles with an exception.
C21_HandlersReturnText ==
  HandlerSettled => cev.ret.fn = cev.fn /\ cev.ret.kind \in TextKinds

\* query-superset has answered with its catch block's text after executeQuery rejected
C21_Witness ==
  /\ HandlerSettled
  /\ cev.fn = "query-superset"
  /\ cev.at = "executeQuery"
  /\ ~cev.in.ok
  /\ cev.ret = TextResult("query-superset", "error")

\* ------------------------------------------------------------------ C22
\* C22: getDatabases() applied to a successful response that holds a result
\* list returns a list of the same length whose i-th entry is the i-th entry
\* of the result, with every field it has.
C22_GetDatabasesPassesThrough ==
  app.fn = "getDatabases" /\ app.in.success /\ HasResult(app.in) =>
    /\ ~app.out.threw
    /\ Len(app.out.value) = Len(app.in.data.obj.result)
    /\ \A i \in 1..Len(app.out.value) : app.out.value[i] = app.in.data.obj.result[i]

\* a two-database response, the first entry with a pass-through field, has been returned
C22_Witness ==
  /\ app.fn = "getDatabases"
  /\ app.in.success /\ HasResult(app.in)
  /\ app.in.data.obj.result = <<DatabaseA, DatabaseB>>
  /\ app.out = Value(<<DatabaseA, DatabaseB>>)

\* ------------------------------------------------------------------ C23
Gives(request, f) == f \in DOMAIN request
\* C23: the request executeQuery sends holds the caller's client and editor
\* identifiers, or generated ones when the caller gives none; its runAsync
\* and json are the caller's values when given, and false and true otherwise.
C23_DefaultsUnlessOverridden ==
  app.fn = "executeQuery" =>
    /\ app.out.client_id # "" /\ app.out.sql_editor_id # ""
    /\ Gives(app.in, "client_id") /\ app.in.client_id # "" => app.out.client_id = app.in.client_id
    /\ Gives(app.in, "sql_editor_id") => app.out.sql_editor_id = app.in.sql_editor_id
    /\ app.out.runAsync = (IF Gives(app.in, "runAsync") THEN app.in.runAsync ELSE FALSE)
    /\ app.out.json = (IF Gives(app.in, "json") THEN app.in.json ELSE TRUE)

\* ------------------------------------------------------------------ C24
\* C24: every table getTables returns for an item that has a value field has
\* that value as its name, whatever other fields the item has.
C24_NameIsValue ==
  app.fn = "getTables" /\ ~app.out.threw =>
    \A i \in 1..Len(app.out.value) :
      Gives(app.in.data.obj.result[i], "value") =>
        app.out.value[i].name = app.in.data.obj.result[i].value

\* ------------------------------------------------------------------ C25
\* The request() the last step resumed settled its await on refreshAccessToken() with false.
RefreshFailedForRetry ==
  /\ ev.frame.fn = "request" /\ ev.frame.pc = "awaitRefresh"
  /\ ev.in.kind = "bool" /\ ~ev.in.b

\* The request() the last step resumed read the body of a 401 response that
\* is not the expiry marker, or is the marker while the call has refresh disabled.
UnauthorizedNoRefresh ==
  /\ ev.frame.fn = "request" /\ ev.frame.pc = "body"
  /\ ev.frame.status = 401 /\ ev.in.kind = "json"
  /\ (ev.in.msg # Expired \/ ~ev.frame.allow)

\* the failure result of the 401 response: no success, the status, the body and its message
OriginalFailure(msg) ==
  /\ ev.retFn = "request"
  /\ ev.retVal.tag = "resp"
  /\ ~ev.retVal.success
  /\ ev.retVal.status = 401
  /\ ev.retVal.data.kind = "json" /\ ev.retVal.data.msg = msg
  /\ ev.retVal.error = (IF Truthy(msg) THEN msg ELSE "request failed")

\* no function was entered and no transport call issued in the last step
NothingIssued == ev.issued = NoFetch /\ ev.calls = <<>>

Depth(t) == Len(stack[t])

\* C26: every call terminates, and the chain of suspended functions is
\* bounded.  The longest chain without a logout is getCsrfToken, its request,
\* the inline login of that request, the CSRF fetch of the login, the request
\* of the fetch, the refresh of that request and the request of the refresh;
\* each logout() that runs while a chain is suspended lets one more login,
\* CSRF fetch and request join it.  With every transport call answered and
\* every settled await resumed, a task that runs a call comes to run none,
\* whatever the remote answers.
C26_CallsTerminate ==
  /\ [](\A t \in Tasks : Depth(t) <= 7 + 3 * logouts)
  /\ \A t \in Tasks : (stack[t] # <<>>) ~> (stack[t] = <<>>)

\* the chain at its longest without a logout: the refresh request of the
\* CSRF fetch of the inline login of a top-level CSRF fetch is in flight
C26_Witness ==
  /\ logouts = 0
  /\ Depth(1) = 7
  /\ Top(stack[1]).fn = "request" /\ Top(stack[1]).ep = "refresh"
  /\ stack[1][1].fn = "getCsrfToken"

LoginReturnedTrue ==
  /\ ev.frame.fn = "login" /\ ev.retFn = "login"
  /\ ev.retVal.tag = "bool" /\ ev.retVal.b

\* C28 (as stated): whenever login() returns true the session holds a CSRF
\* token.
C28_LoginImpliesCsrf == LoginReturnedTrue => Truthy(csrf)

GetCsrfTokenReturned == ev.frame.fn = "getCsrfToken" /\ ev.retFn = "getCsrfToken"

\* login() is resumed by task t after its await on getCsrfToken()
LoginResumes(t) ==
  /\ AtAwait(t, "login", "awaitCsrf")
  /\ ev'.task = t /\ ev'.frame.fn = "login" /\ ev'.frame.pc = "awaitCsrf"

\* C28 (amended): login() returns true whenever the login response was
\* successful and carried an access token, whatever the CSRF fetch made
\* after it returned.  getCsrfToken() stores the token it returns, and
\* leaves the CSRF token of the session as it was when it returns null;
\* login() itself stores no CSRF token.  So after login() returned true the
\* session holds a CSRF token obtained after that login only if the fetch
\* succeeded (and logout() has not run since).
C28_LoginIgnoresCsrfResult ==
  /\ [](GetCsrfTokenReturned =>
          /\ ev.retVal.tag = "str"
          /\ Truthy(ev.retVal.s) => csrf = ev.retVal.s
          /\ ~Truthy(ev.retVal.s) => csrf = ev.pre.csrf)
  /\ [](LoginReturnedTrue =>
          (ev.frame.pc = "awaitCsrf" /\ ev.in.kind = "str" /\ csrf = ev.pre.csrf))
  /\ [][\A t \in Tasks : LoginResumes(t) =>
          /\ ret[t].tag = "str"
          /\ ev'.retVal = BoolRet(TRUE)
          /\ (Truthy(ret[t].s) /\ ev.task = t /\ GetCsrfTokenReturned) => csrf' = ret[t].s]_vars

\* login() returned true and the CSRF token its fetch obtained is held
C28_Witness ==
  /\ LoginReturnedTrue
  /\ Truthy(csrf) /\ Truthy(token)
  /\ ev.pre.csrf = csrf /\ lastAuth = "set"

\* ------------------------------------------------------------------ C29
\* the step read the status line and headers of a response to endpoint ep
ResponseArrived(e, ep) ==
  /\ e.frame.fn = "request" /\ e.frame.pc = "fetch"
  /\ e.frame.ep = ep /\ e.in.kind = "resp"

\* C29: the cookie jar is changed only by a response from the CSRF-token
\* endpoint, which only adds or overwrites entries, and by logout(), which
\* empties it; the response of any other request leaves the jar unchanged.
C29_JarChangesOnlyByCsrfAndLogout ==
  [][cookies' # cookies =>
       \/ ev'.frame.fn = "logout" /\ cookies' = EmptyJar
       \/ /\ ResponseArrived(ev', "csrf")
          /\ DOMAIN cookies \subseteq DOMAIN cookies']_vars

\* ------------------------------------------------------------------ C30
\* The step resumes a function of task t that was suspended when logout()
\* last ran (a call in flight at the logout).
InFlightResumes(t) ==
  /\ stack[t] # <<>>
  /\ Len(stack[t]) <= inFlight[t]
  /\ ev'.task = t
  /\ ev'.frame.fn = Top(stack[t]).fn /\ ev'.frame.pc = Top(stack[t]).pc

KeepsSession == token' = token /\ refresh' = refresh /\ csrf' = csrf /\ cookies' = cookies

\* C30 (as stated): a login, refresh or CSRF fetch that was in flight when
\* logout() ran stores nothing in the session when it is resumed.
C30_InFlightCallsStoreNothing ==
  [][\A t \in Tasks :
       (/\ InFlightResumes(t)
        /\ \/ Top(stack[t]).fn \in {"login", "refreshAccessToken", "getCsrfToken"}
           \/ Top(stack[t]).fn = "request" /\ Top(stack[t]).ep \in AuthEndpoints)
       => KeepsSession]_vars

\* C30 (amended): logout() clears the four fields when it is called and
\* does nothing to the calls in flight.  A call that was in flight stores
\* what its response carries exactly as without the logout: login() the
\* access and refresh token of a successful login response, refreshAccessToken()
\* the access token of a successful refresh response, getCsrfToken() the
\* token of a successful CSRF response, and request() the cookies of a
\* response to a URL containing "csrf_token"; it changes nothing else.
C30_LogoutDoesNotStopCallsInFlight ==
  /\ [](ev.frame.fn = "logout" => Sess = EmptySession)
  /\ [][\A t \in Tasks : InFlightResumes(t) =>
          LET f == Top(stack[t])
              r == ret[t]
          IN CASE f.fn = "login" /\ f.pc = "awaitResp" /\ LoginSucceeded(r) ->
                    /\ token' = r.data.access_token /\ refresh' = r.data.refresh_token
                    /\ csrf' = csrf /\ cookies' = cookies
               [] f.fn = "refreshAccessToken" /\ RefreshSucceeded(r) ->
                    /\ token' = r.data.access_token
                    /\ refresh' = refresh /\ csrf' = csrf /\ cookies' = cookies
               [] f.fn = "getCsrfToken" /\ CsrfSucceeded(r) ->
                    /\ csrf' = r.data.result
                    /\ token' = token /\ refresh' = refresh /\ cookies' = cookies
               [] f.fn = "request" /\ f.pc = "fetch" ->
                    /\ token' = token /\ refresh' = refresh /\ csrf' = csrf
                    /\ cookies' # cookies =>
                         /\ CsrfIndex[f.ep] # -1 /\ ev'.in.kind = "resp"
                         /\ DOMAIN cookies \subseteq DOMAIN cookies'
               [] OTHER -> KeepsSession]_vars

\* the constructor's login() was in flight when logout() ran, and its
\* response has put an access token into the cleared session
C30_Witness ==
  /\ logouts > 0
  /\ ev.frame.fn = "login" /\ ev.frame.pc = "awaitResp"
  /\ ~Truthy(ev.pre.token) /\ Truthy(token) /\ token = ev.in.access_token
  /\ Len(stack[1]) >= 3
  /\ stack[1][Len(stack[1]) - 2].fn = "login"
  /\ Len(stack[1]) - 2 <= inFlight[1]

\* ------------------------------------------------------------------ C31
\* the login transport calls of caller t that have not settled
LoginCallsInFlight(t) ==
  {i \in DOMAIN stack[t] :
     /\ stack[t][i].fn = "request" /\ stack[t][i].ep = "login"
     /\ stack[t][i].pc \in {"fetch", "body"}}
LoggingIn == {t \in DOMAIN stack : LoginCallsInFlight(t) # {}}

\* C31 (as stated): at most one login transport call is in flight at any
\* time, under every interleaving.
C31_OneLoginInFlight ==
  /\ Cardinality(LoggingIn) <= 1
  /\ \A t \in DOMAIN stack : Cardinality(LoginCallsInFlight(t)) <= 1

\* C31 (amended): logins are not shared between callers.  A request() that
\* finds no access token held starts its own login, also while the login of
\* the constructor (or of another request) is in flight; each caller has at
\* most one login transport call in flight, so as many are in flight
\* together as there are callers that found no token.
C31_OneLoginPerCaller ==
  /\ \A t \in DOMAIN stack : Cardinality(LoginCallsInFlight(t)) <= 1
  /\ (ev.frame.fn = "start" /\ ev.frame.pc = "get" /\ ~Truthy(ev.pre.token)) =>
       /\ ev.issued.ep = "login"
       /\ LoginCallsInFlight(ev.task) # {}

\* the login of the constructor and the inline login of a request made
\* right after construction are in flight together
C31_Witness ==
  /\ LoggingIn = {1, 2}
  /\ op[1].name = "login" /\ op[2].name = "get"
  /\ ev.frame.fn = "start" /\ ev.task = 2
  /\ token = Null

\* ------------------------------------------------------------------ C32
\* caller t holds the response of its get
Done(t) == stack[t] # <<>> /\ Top(stack[t]).fn = "caller" /\ Top(stack[t]).pc = "done"
\* ... and its endpoint was fetched twice: its refresh succeeded and it retried
Retried(t) == Done(t) /\ topCalls[t] = 2
\* the step read a 401 with the expiry marker, refresh allowed, a refresh token held
ExpiredWithRefreshToken ==
  /\ ev.frame.fn = "request" /\ ev.frame.pc = "body"
  /\ ev.frame.status = 401 /\ ev.frame.allow
  /\ ev.in.kind = "json" /\ ev.in.msg = Expired
  /\ Truthy(ev.pre.refresh)

AwaitsMetadata(p) ==
  proc[p].fn \in {"list-fields", "query-superset"} /\ proc[p].pc = "getTableMetadata"
PendingKey(p) ==
  IF proc[p].fn = "list-fields"
  THEN CacheKey(proc[p].databaseId, proc[p].schema, proc[p].tableName)
  ELSE CacheKey(proc[p].database.id, proc[p].table.schema, proc[p].table.name)
\* the step resumed a getTableFields call with the answer of the remote
MetadataAnswered(e) == e.at = "getTableMetadata" /\ Len(e.lookup.key) = 3

\* C33 (as stated): overlapping getTableFields calls for one key share one
\* remote request: no two are in flight for the same key, and an answer is
\* stored only for a key that has no entry yet.
C33_OneRequestPerKey ==
  /\ [](\A p, q \in Procs :
          (p # q /\ AwaitsMetadata(p) /\ AwaitsMetadata(q)) => PendingKey(p) # PendingKey(q))
  /\ [][(MetadataAnswered(cev') /\ cev'.in.ok) => ~MapHas(fieldsCache, KeyOf(cev'))]_vars

\* C33 (amended): getTableFields calls are not shared.  Every call that
\* begins while its key has no entry issues its own getTableMetadata
\* request, also while another call for the same key is in flight, and
\* every successful answer is stored under the key, replacing what an
\* earlier answer stored.
C33_OneRequestPerLookup ==
  /\ [][(LookupBegins(cev') /\ ~MapHas(fieldsCache, KeyOf(cev'))) =>
          /\ Cardinality(MetadataCalls(cev'.calls)) = 1
          /\ ~cev'.lookup.hit /\ ~cev'.lookup.returned
          /\ proc'[cev'.proc].fn \in {"list-fields", "query-superset"}
          /\ proc'[cev'.proc].pc = "getTableMetadata"
          /\ fieldsCache' = fieldsCache]_vars
  /\ [][(MetadataAnswered(cev') /\ cev'.in.ok) =>
          /\ MapHas(fieldsCache', KeyOf(cev'))
          /\ fieldsCache'[KeyOf(cev')] = cev'.in.value.columns
          /\ MetadataCalls(cev'.calls) = {}]_vars

\* two getTableFields calls for the same key are in flight together
C33_Witness ==
  /\ AwaitsMetadata(1) /\ AwaitsMetadata(2)
  /\ PendingKey(1) = PendingKey(2)
  /\ ~MapHas(fieldsCache, PendingKey(1))

\* ------------------------------------------------------------------ C34
MetadataFailed(e) == MetadataAnswered(e) /\ ~e.in.ok

\* C34: a getTableFields call whose getTableMetadata call is rejected
\* returns [] without throwing (the handler reports that no fields were
\* found) and leaves the field cache as it is; a later call for a key that
\* has no entry issues the remote call again.
C34_FailureNotMemoized ==
  /\ [][MetadataFailed(cev') =>
          /\ cev'.lookup.returned /\ ~cev'.lookup.hit
          /\ cev'.lookup.value = Some(<<>>)
          /\ cev'.ret.kind = "no fields"
          /\ fieldsCache' = fieldsCache
          /\ proc'[cev'.proc].fn = "idle"]_vars
  /\ [][(LookupBegins(cev') /\ MetadataFailed(cev) /\ KeyOf(cev') = KeyOf(cev)
          /\ ~MapHas(fieldsCache, KeyOf(cev))) =>
          /\ Cardinality(MetadataCalls(cev'.calls)) = 1
          /\ cev'.calls[1].args = cev'.lookup.key
          /\ ~cev'.lookup.returned]_vars

\* a lookup has failed: [] was returned, and the key has no entry
C34_Witness ==
  /\ MetadataFailed(cev)
  /\ cev.fn = "list-fields" /\ cev.ret.kind = "no fields"
  /\ cev.lookup.value = Some(<<>>)
  /\ ~MapHas(fieldsCache, KeyOf(cev))

\* ------------------------------------------------------------------ C35
\* C35: distinct (databaseId, schema, tableName) triples have distinct
\* cache keys, and the list a getTableFields call returns, memoized or not,
\* is the one fetched for its own triple.
C35_KeysSeparateTables ==
  app.fn = "getTableFields" =>
    LET first == app.in[1]
        second == app.in[2]
    IN /\ first # second =>
            CacheKey(first[1], first[2], first[3]) # CacheKey(second[1], second[2], second[3])
       /\ app.out.fields = Some(ColumnsOfTable(second))

\* ------------------------------------------------------------------ C36
\* A run of initializeCache that is inside its loop over the databases.
RunInLoop(p) == proc[p].fn = "initializeCache" /\ proc[p].pc \in {"getSchemas", "getTables"}
\* The databases the run has still to handle, the current one included.
RunPending(p) == {proc[p].dbs[j].id : j \in proc[p].i..Len(proc[p].dbs)}
ToolStarts(tool) == cev'.at = "start" /\ cev'.fn = tool

KeepsTo(p, id) ==
  \/ cev'.ret = TextResult("query-superset", "no match")
  \/ /\ \A n \in DOMAIN cev'.calls : cev'.calls[n].args[1] = id
     /\ proc'[p].fn = "query-superset" => proc'[p].database.id = id

\* C37: a query-superset call with a databaseId argument runs the query on the
\* database of that id or reports that no match was found, also when schema or
\* tableName is omitted.  (The call is one that selects a table: it has found
\* the database cache non-empty.)
C37_DatabaseIdHonoured ==
  [][\A p \in Procs, q \in ToolQueries, id \in ToolDatabaseIds,
        s \in OptionalSchemas, t \in OptionalTables :
       Len(databasesCache) > 0 /\ QuerySuperset(p, q, Some(id), s, t) => KeepsTo(p, id)]_vars

\* ------------------------------------------------------------------ C38
Applied(fn) == heur.fn = fn
\* The number after the first occurrence of limit keyword k, as parseInt reads
\* the first token of the text that follows it.
LimitAfter(query, k) == ParseInt(FirstToken(TextAfter(query, LimitKeywords[k])))
LimitQualifies(query, k) ==
  /\ KeywordFound(query, LimitKeywords[k])
  /\ ~LimitAfter(query, k).isNaN
  /\ LimitAfter(query, k).value > 0
Qualifying(query) == {k \in DOMAIN LimitKeywords : LimitQualifies(query, k)}
ExpectedLimit(query) ==
  IF Qualifying(query) = {} THEN DefaultLimit
  ELSE LimitAfter(query, SetMax(Qualifying(query))).value

\* The statement without its string literals and quoted identifiers.
RECURSIVE OutsideQuotes(_, _, _)
OutsideQuotes(s, i, open) ==
  IF i > Len(s) THEN <<>>
  ELSE IF open = "none"
  THEN IF IsQuote(s[i]) THEN OutsideQuotes(s, i + 1, s[i])
       ELSE <<s[i]>> \o OutsideQuotes(s, i + 1, "none")
  ELSE OutsideQuotes(s, i + 1, IF s[i] = open THEN "none" ELSE open)
Occurrences(s, sub) ==
  Cardinality({i \in 0..(Len(s) - Len(sub)) : SubSeq(s, i + 1, i + Len(sub)) = sub})
EndsWith(s, tail) == Len(s) >= Len(tail) /\ SubSeq(s, Len(s) - Len(tail) + 1, Len(s)) = tail

\* C38: every statement generateSqlQuery produces ends with the clause LIMIT n,
\* its only LIMIT clause, with n a positive integer: n is 10 unless some limit
\* keyword occurs in the input and the first token after its first occurrence
\* parses to a positive integer, and of the keywords for which this is so the
\* last one in the order of the keyword list gives n.
C38_OneLimitClause ==
  Applied("generateSqlQuery") =>
    LET n == ExpectedLimit(heur.query)
    IN /\ n > 0
       /\ EndsWith(heur.sql, <<" ">> \o LimitOf(n))
       /\ Occurrences(OutsideQuotes(heur.sql, 1, "none"), <<"L", "I", "M", "I", "T">>) = 1
       /\ Qualifying(heur.query) = {} => n = 10

\* Two keywords are followed by a number: the statement has the number of
\* "top", the later keyword of the list, though "limit 5" is in the input.
C38_Witness ==
  /\ Applied("generateSqlQuery")
  /\ Qualifying(heur.query) = {1, 2}
  /\ LimitAfter(heur.query, 1).value = 5
  /\ EndsWith(heur.sql, <<" ">> \o LimitOf(3))

\* ------------------------------------------------------------------ C39
\* The fields whose name the text after filter keyword k contains, whatever
\* the case of the letters.
FieldsNamedAfter(query, fields, k) ==
  {i \in DOMAIN fields :
     Includes(ToLowerCase(TextAfter(query, FilterKeywords[k])), ToLowerCase(fields[i].name))}
FilterQualifies(query, fields, k) ==
  /\ KeywordFound(query, FilterKeywords[k])
  /\ TextAfter(query, FilterKeywords[k]) # <<>>
  /\ FieldsNamedAfter(query, fields, k) # {}
Filtering(query, fields) == {k \in DOMAIN FilterKeywords : FilterQualifies(query, fields, k)}
SelectFrom(table, fields) ==
  <<"S", "E", "L", "E", "C", "T", " ">> \o JoinNames(fields, 1) \o <<" ", "F", "R", "O", "M", " ">>
  \o Quoted(table.schema) \o <<".">> \o Quoted(table.name) \o <<" ">>
\* What the statement has between its FROM item and its LIMIT clause.
WherePart(sql, table, fields, n) ==
  SubSeq(sql, Len(SelectFrom(table, fields)) + 1, Len(sql) - Len(<<" ">> \o LimitOf(n)))
WhereLike(name, pattern) ==
  <<"W", "H", "E", "R", "E", " ">> \o Quoted(name)
  \o <<" ", "L", "I", "K", "E", " ", "'", "%">> \o pattern \o <<"%", "'">>

\* C39: generateSqlQuery emits a WHERE clause if and only if some filter
\* keyword occurs in the input with non-empty text after it that contains a
\* field name, letter case ignored; the clause names the first such field of
\* the field list, and its LIKE pattern is the whole text after the keyword
\* with every single and double quote removed.  (Of the keywords for which
\* this is so, the clause is that of the last one in the keyword list.)
C39_WhereClauseIffFilter ==
  Applied("generateSqlQuery") =>
    LET q == heur.query
        fields == heur.fields
        where == WherePart(heur.sql, heur.match.table, fields, ExpectedLimit(q))
        k == SetMax(Filtering(q, fields))
        condition == TextAfter(q, FilterKeywords[k])
    IN /\ where # <<>> <=> Filtering(q, fields) # {}
       /\ Filtering(q, fields) # {} =>
            where = WhereLike(fields[SetMin(FieldsNamedAfter(q, fields, k))].name,
                              SelectSeq(condition, LAMBDA c : c \notin {"'", "\""}))

\* A statement with a WHERE clause for an input whose trailing text has the
\* field name in other letters than the field list and has quotes.
C39_Witness ==
  /\ Applied("generateSqlQuery")
  /\ Filtering(heur.query, heur.fields) = {1}
  /\ heur.fields = <<FieldStatus>>
  /\ \E i \in DOMAIN heur.query : heur.query[i] = "'"
  /\ WherePart(heur.sql, heur.match.table, heur.fields, ExpectedLimit(heur.query)) # <<>>

====
